---- MODULE Spec2Model ----
(***************************************************************************)
(* A model of the agent-interaction and memory orchestration of the        *)
(* simulation: the world map and agent moves (world/world_simluator.py),   *)
(* the long-term memory store (memory/long_term_mem.py), the multi-round   *)
(* dialogue of BaseAgent (agents/base_agent.py), the structured dialogue   *)
(* of DialogueManager (dialogue/dialogue_manager.py), and the curriculum   *)
(* cursor and exam grading of ExpertAgent (agents/expert_agent.py).        *)
(*                                                                         *)
(* Each component has its own specification (SpecWorld, SpecMemory, ...)   *)
(* over its own group of variables; the other groups keep their initial    *)
(* values.  Spec is the interleaving of all components' operations.        *)
(***************************************************************************)
EXTENDS Integers, Sequences, FiniteSets, TLC

VARIABLES
    \* ---- WorldSimulator -------------------------------------------------
    agents,            \* self.agents: the registered names, in insertion order
    mapAgents,         \* self.map['locations'][l]['agents'], a list per location
    current_location,  \* agent.current_location of every agent object
    w_call,            \* the last WorldSimulator call and what it returned
    \* ---- LongTermMemory -------------------------------------------------
    memos,             \* self.memos: the list of memory records
    m_call,            \* the last add_memory call: its record and what it found
    m_last,            \* per id, the payload of the last add_memory with that id
    \* ---- BaseAgent.initiate_dialogue ------------------------------------
    d_pc,              \* where the call is: "round", "admit", "turns", "memory", ...
    d_self,            \* self.name, the initiating agent
    d_participants,    \* the participants argument
    d_max_rounds,      \* the max_rounds argument
    d_round,           \* round_num
    d_available,       \* available_participants
    d_temp,            \* temp_participants
    d_idx,             \* the position of the running for loop in available_participants
    d_history,         \* dialogue_history: the turns, each with its speaker and round
    d_declined,        \* per agent, the round in which it declined, or -1
    \* ---- DialogueManager.run_structured_dialogue ------------------------
    s_pc,              \* where the call is: "idle", "round", "turn", "check", "returned",
                       \* or "raised"
    s_max_rounds,      \* the max_rounds argument
    s_all_agents,      \* all_agents = [initiating_agent] + participant_agents (names)
    s_topic_closing,   \* whether the topic itself contains a closing keyword
    s_round,           \* round_num
    s_idx,             \* the position of the inner for loop in all_agents
    s_history,         \* dialogue_history: the turns, each with speaker and message
    s_empty,           \* the number of turns lost to an empty LLM reply so far
    \* ---- ExpertAgent.grade_exam -----------------------------------------
    g_pc,              \* where the call is: "idle", "grading", "returned", "raised"
    g_n_answers,       \* len(answers)
    g_n_questions,     \* len(exam_questions)
    g_results,         \* grading_results: per graded question its score and the reply
    g_ret,             \* the returned total_score (a fraction) and max_score
    \* ---- ExpertAgent.get_next_teaching_topic ----------------------------
    c_ready,           \* the expert has been constructed
    curriculum_sequence, \* self.curriculum["sequence"]
    teaching_progress, \* self.teaching_progress, -1 for a student not in it
    c_calls,           \* per student, the number of get_next_teaching_topic calls
    c_topic,           \* per student, the topic the last call returned
    c_sessions,        \* the number of group-teaching calls of teach
    c_group,           \* all_students of the last group-teaching call
    \* ---- BaseAgent.create_daily_schedule --------------------------------
    current_schedule,  \* self.current_schedule of one agent
    sch_call,          \* the last create_daily_schedule call and what it returned
    \* ---- WorldSimulator.handle_interactions, one location ----------------
    h_in,              \* the inputs of the pass: the class of the registered agents, whether
                       \* the location is a social one, and the random draws
    h_dialogue,        \* what initiate_dialogue returned: the transcript, the number of
                       \* _should_continue_dialogue calls, and its max_rounds argument
    h_pc,              \* where the pass is: "idle", "admission", "admitted",
                       \* "teach_decision", "done" or "raised"
    h_agent_names,     \* agent_names: the agents grouped at the location
    h_participating,   \* participating_agents
    h_idx,             \* the position of the admission loop in agent_names
    h_new,             \* per agent, the memories this pass added to its store
    h_logs,            \* the number of dialogue log files this pass wrote
    h_teach,           \* the number of times this pass invoked teach
    h_branch,          \* the branch the pass took after the interaction draw
    \* ---- the core behaviours of ExpertAgent and StudentAgent -------------
    b_store,           \* the types of the records in the expert's and the student's store
    b_call,            \* the last behaviour call, its LLM calls and what it returned
    \* ---- LongTermMemory.get_memories_by_topic ----------------------------
    t_memos,           \* self.memos, as far as a topic search reads it
    t_call,            \* the last call on this store and, for a search, its result
    \* ---- ExpertAgent.create_exam -----------------------------------------
    x_pc,              \* where the call is: "idle", "asking" or "returned"
    x_num_questions,   \* the num_questions argument
    x_selected,        \* selected_topics
    x_questions,       \* exam_questions
    \* ---- WorldSimulator.start_simulation ---------------------------------
    sim_pc,            \* where the call is: "idle", "pre_exam", "day", "agents",
                       \* "interactions", "requests", "post_exam", "finished", "raised"
    sim_cfg,           \* agents_list, is_exam, total_days and len(time_slots)
    sim_day,           \* the number of days begun
    sim_slot,          \* the position of the slot loop in time_slots
    sim_idx,           \* the position of the running loop over self.agents
    sim_calendar,      \* the number of calendar.advance_day() calls
    sim_passes,        \* the number of handle_interactions passes completed
    sim_exams,         \* the number of create_exam calls
    sim_taken,         \* per agent, the number of take_exam calls
    exam_scores,       \* the keys of self.exam_scores
    \* ---- LongTermMemory.search_memories without a query ------------------
    r_memos,           \* self.memos: records with a type, a timestamp and a weight
    r_now,             \* datetime.now(), in hours
    r_call,            \* the last call on this store and, for a search, its result
    \* ---- LongTermMemory and its file ---------------------------------------
    p_memos,           \* self.memos of the store that is open on the file
    p_file,            \* the lines of the JSONL file, each a list of tokens
    p_call,            \* the last call on the store, and the lines its load skipped
    \* ---- evaluator.evaluate_speaker_in_dialogue ----------------------------
    e_pc,              \* where the call is: "idle", "calling" or "returned"
    e_args,            \* the retry_times and base_sleep arguments (base_sleep in tenths of a second)
    e_retry,           \* the loop variable retry
    e_log,             \* per attempt so far, what the LLM call gave
    e_sleeps,          \* the arguments of the time.sleep calls so far, in tenths of a second
    e_ret,             \* the returned status and the score of every dimension
    \* ---- KnowledgeBaseManager ----------------------------------------------
    knowledge_store,   \* self.knowledge_store: the loaded entries, in load order
    k_index,           \* the metadata topics of the documents in the vector store
    k_call             \* the last call on the manager and, for get_all_topics, its result

worldVars == <<agents, mapAgents, current_location, w_call>>

memVars == <<memos, m_call, m_last>>

dlgVars == <<d_pc, d_self, d_participants, d_max_rounds, d_round, d_available,
             d_temp, d_idx, d_history, d_declined>>

sdVars == <<s_pc, s_max_rounds, s_all_agents, s_topic_closing, s_round, s_idx,
            s_history, s_empty>>

examVars == <<g_pc, g_n_answers, g_n_questions, g_results, g_ret>>

currVars == <<c_ready, curriculum_sequence, teaching_progress, c_calls, c_topic,
              c_sessions, c_group>>

schedVars == <<current_schedule, sch_call>>

\* the groups of the components above
coreVars == <<worldVars, memVars, dlgVars, sdVars, examVars, currVars>>

\* the groups of the further components
interVars == <<h_in, h_dialogue, h_pc, h_agent_names, h_participating, h_idx, h_new, h_logs, h_teach,
               h_branch>>

behVars == <<b_store, b_call>>

topicVars == <<t_memos, t_call>>

createVars == <<x_pc, x_num_questions, x_selected, x_questions>>

simVars == <<sim_pc, sim_cfg, sim_day, sim_slot, sim_idx, sim_calendar, sim_passes,
             sim_exams, sim_taken, exam_scores>>

recentVars == <<r_memos, r_now, r_call>>

persistVars == <<p_memos, p_file, p_call>>

evalVars == <<e_pc, e_args, e_retry, e_log, e_sleeps, e_ret>>

kbVars == <<knowledge_store, k_index, k_call>>

extVars == <<schedVars, interVars, behVars, topicVars, createVars, simVars, recentVars,
    persistVars,
    evalVars,
    kbVars>>

vars == <<coreVars, extVars>>

None == "None"

(***************************************************************************)
(* Helpers on Python lists.                                                *)
(***************************************************************************)
SeqToSet(s) == {s[i] : i \in 1..Len(s)}

Contains(s, x) == \E i \in 1..Len(s) : s[i] = x

Count(s, x) == Cardinality({i \in 1..Len(s) : s[i] = x})

\* list.remove(x): removes the first occurrence of x (x is known to occur)
ListRemove(s, x) ==
    LET i == CHOOSE k \in 1..Len(s) : s[k] = x /\ \A j \in 1..(k-1) : s[j] # x
    IN  SubSeq(s, 1, i-1) \o SubSeq(s, i+1, Len(s))

notWorld == <<memVars, dlgVars, sdVars, examVars, currVars, extVars>>

notMemory == <<worldVars, dlgVars, sdVars, examVars, currVars, extVars>>

notDialogue == <<worldVars, memVars, sdVars, examVars, currVars, extVars>>

notStructured == <<worldVars, memVars, dlgVars, examVars, currVars, extVars>>

notExam == <<worldVars, memVars, dlgVars, sdVars, currVars, extVars>>

notCurriculum == <<worldVars, memVars, dlgVars, sdVars, examVars, extVars>>

notSchedule == <<coreVars, interVars, behVars, topicVars, createVars, simVars,
    recentVars,
    persistVars,
    evalVars,
    kbVars>>

notInteractions == <<coreVars, schedVars, behVars, topicVars, createVars, simVars,
    recentVars,
    persistVars,
    evalVars,
    kbVars>>

notBehaviours == <<coreVars, schedVars, interVars, topicVars, createVars, simVars,
    recentVars,
    persistVars,
    evalVars,
    kbVars>>

notTopicSearch == <<coreVars, schedVars, interVars, behVars, createVars, simVars,
    recentVars,
    persistVars,
    evalVars,
    kbVars>>

\* create_exam reads the curriculum of the expert
notCreateExam == <<worldVars, memVars, dlgVars, sdVars, examVars,
                   schedVars, interVars, behVars, topicVars, simVars, recentVars,
    persistVars,
    evalVars,
    kbVars>>

notSimulation == <<coreVars, schedVars, interVars, behVars, topicVars, createVars,
    recentVars,
    persistVars,
    evalVars,
    kbVars>>

notRecent == <<coreVars, schedVars, interVars, behVars, topicVars, createVars, simVars,
    persistVars,
    evalVars,
    kbVars>>

notPersist == <<coreVars, schedVars, interVars, behVars, topicVars, createVars,
    simVars, recentVars,
    evalVars,
    kbVars>>

notEvaluator == <<coreVars, schedVars, interVars, behVars, topicVars, createVars,
    simVars, recentVars, persistVars,
    kbVars>>

notKnowledge == <<coreVars, schedVars, interVars, behVars, topicVars, createVars,
    simVars, recentVars, persistVars, evalVars>>

(***************************************************************************)
(* WorldSimulator: the map and the agents' places.                         *)
(***************************************************************************)
AgentNames == {"Sensei", "Arisu", "Midori"}

\* the keys of self.map['locations'], in the order of the map file
MapLocationList == <<"library", "classroom", "park">>

MapLocations == SeqToSet(MapLocationList)

\* strings a caller or a schedule may name that are no key of the map
UnknownLocations == {"unknown_place", "moon"}

AnyLocation == MapLocations \cup UnknownLocations

InitWorldVars ==
    /\ agents = <<>>
    /\ mapAgents = [l \in MapLocations |-> <<>>]
    /\ current_location = [a \in AgentNames |-> None]
    /\ w_call = [op |-> "none", agent |-> None, location |-> None, ret |-> FALSE]

\* register_agent(agent), for an agent that is not registered yet
RegisterAgent(a) ==
    /\ ~Contains(agents, a)
    /\ agents' = Append(agents, a)
    /\ IF Len(MapLocationList) > 0
         THEN LET default_location == MapLocationList[1]
              IN  /\ current_location' = [current_location EXCEPT ![a] = default_location]
                  /\ mapAgents' = [mapAgents EXCEPT ![default_location] = Append(@, a)]
         ELSE UNCHANGED <<current_location, mapAgents>>
    /\ w_call' = [op |-> "register_agent", agent |-> a, location |-> None, ret |-> TRUE]
    /\ UNCHANGED notWorld

\* a move_agent that forgets to take the agent off its old location's list
RemoveNothing(a) == mapAgents

\* the list of every location after move_agent's "remove agent from current location"
RemoveFromCurrent(a) ==
    LET cur == current_location[a]
    IN  IF cur # None /\ cur \in MapLocations /\ Contains(mapAgents[cur], a)
          THEN [mapAgents EXCEPT ![cur] = ListRemove(@, a)]
          ELSE mapAgents

\* the body of move_agent(agent_name, location); ret is the value it returns
MoveAgentBody(a, l, ret) ==
    IF ~Contains(agents, a)
      THEN /\ ret = FALSE
           /\ UNCHANGED <<mapAgents, current_location>>
      ELSE LET removed == RemoveFromCurrent(a)
           IN  IF l \in MapLocations
                 THEN /\ mapAgents' = [removed EXCEPT ![l] = Append(@, a)]
                      /\ current_location' = [current_location EXCEPT ![a] = l]
                      /\ ret = TRUE
                 ELSE /\ mapAgents' = removed
                      /\ UNCHANGED current_location
                      /\ ret = FALSE

\* a caller's move_agent(agent_name, location)
MoveAgent(a, l) ==
    /\ \E ret \in BOOLEAN :
         /\ MoveAgentBody(a, l, ret)
         /\ w_call' = [op |-> "move_agent", agent |-> a, location |-> l, ret |-> ret]
    /\ UNCHANGED <<agents, notWorld>>

\* start_simulation, one agent's step of a time slot: the action's location is
\* whatever the schedule names; the agent is moved when it differs from its place
ScheduleAndMove(a, l) ==
    /\ Contains(agents, a)
    /\ IF l # current_location[a]
         THEN \E ret \in BOOLEAN :
                /\ MoveAgentBody(a, l, ret)
                /\ w_call' = [op |-> "move_agent", agent |-> a, location |-> l, ret |-> ret]
         ELSE /\ UNCHANGED <<mapAgents, current_location>>
              /\ w_call' = [op |-> "none", agent |-> a, location |-> l, ret |-> FALSE]
    /\ UNCHANGED <<agents, notWorld>>


(***************************************************************************)
(* LongTermMemory: the list of records and add_memory.                     *)
(***************************************************************************)
MemIds == {"m1", "m2", "m3"}

\* the 'id' of a record that has no 'id' key
NoId == "NoId"

\* what a record holds besides its id
Payloads == {"p1", "p2"}

\* add_memory is called while the store holds fewer than MaxMemos records, or
\* to update a record
MaxMemos == 4

MemoryRecords == [id : MemIds \cup {NoId}, payload : Payloads]

\* the store of a LongTermMemory whose file did not exist
InitMemoryVars ==
    /\ memos = <<>>
    /\ m_call = [op |-> "none", id |-> NoId, payload |-> None, existed |-> FALSE, prevLen |-> 0]
    /\ m_last = [id \in MemIds |-> None]

\* the indexes of the records whose 'id' is id
IndexesOf(id) == {i \in 1..Len(memos) : memos[i].id = id}

\* an add_memory that never finds the id and so appends every record
FindNothing(memory) == 0

\* add_memory's search: the first index whose record has the id of memory, or 0
FindExisting(memory) ==
    IF memory.id # NoId /\ IndexesOf(memory.id) # {}
      THEN CHOOSE i \in IndexesOf(memory.id) : \A j \in IndexesOf(memory.id) : i <= j
      ELSE 0

\* add_memory(memory); save_memories() rewrites the file from memos
AddMemory(memory) ==
    /\ LET i == FindExisting(memory)
       IN  /\ IF i # 0
                THEN memos' = [memos EXCEPT ![i] = memory]
                ELSE /\ Len(memos) < MaxMemos
                     /\ memos' = Append(memos, memory)
           /\ m_call' = [op |-> "add_memory", id |-> memory.id, payload |-> memory.payload,
                         existed |-> (memory.id # NoId /\ IndexesOf(memory.id) # {}),
                         prevLen |-> Len(memos)]
    /\ m_last' = IF memory.id # NoId THEN [m_last EXCEPT ![memory.id] = memory.payload]
                 ELSE m_last
    /\ UNCHANGED notMemory

(***************************************************************************)
(* BaseAgent.initiate_dialogue: the multi-round dialogue.                  *)
(***************************************************************************)
\* the largest max_rounds a dialogue is started with
MaxRounds == 7

\* the orders in which the agents of a set may be listed
Orderings(S) == {s \in [1..Cardinality(S) -> S] : \A i, j \in 1..Cardinality(S) : i # j => s[i] # s[j]}

\* what the LLM may answer to _should_continue_dialogue's prompt: a JSON object
\* with should_join true or false, a JSON object without that key, text with no
\* '{'...'}' span, a span that is no JSON, or an exception instead of a reply
ContinueReplies == {"join", "decline", "no_key", "no_json", "bad_json", "raise"}

\* _should_continue_dialogue(other_agent, con_memory): the value it returns.
\* kind "dict" is the decoded JSON object, kind "bool" a bare boolean
ShouldContinueDialogue(reply, con_memory) ==
    CASE reply = "join"     -> [kind |-> "dict", has_key |-> TRUE,  value |-> TRUE]
      [] reply = "decline"  -> [kind |-> "dict", has_key |-> TRUE,  value |-> FALSE]
      [] reply = "no_key"   -> [kind |-> "dict", has_key |-> FALSE, value |-> FALSE]
      [] reply = "no_json"  -> [kind |-> "bool", has_key |-> FALSE, value |-> Len(con_memory) > 0]
      [] OTHER              -> [kind |-> "bool", has_key |-> FALSE, value |-> FALSE]

\* decision["should_join"] can be read: a bool cannot be subscripted (TypeError)
\* and a dict without the key raises KeyError
Subscriptable(decision) == decision.kind = "dict" /\ decision.has_key

\* all_participants = [self.name] + participants
AllParticipants == <<d_self>> \o d_participants

\* an admission loop that asks every original participant again in each round
AdmissionCandidatesAll == <<d_self>> \o d_participants

\* the list the admission loop of a round iterates over
AdmissionCandidates == d_available

\* no dialogue has been started
InitDialogueVars ==
    /\ d_pc = "idle"
    /\ d_self = None
    /\ d_participants = <<>>
    /\ d_max_rounds = 0
    /\ d_round = 0
    /\ d_available = <<>>
    /\ d_temp = <<>>
    /\ d_idx = 1
    /\ d_history = <<>>
    /\ d_declined = [a \in AgentNames |-> -1]

\* initiate_dialogue(participants, topic, max_rounds, world_simulator) up to the
\* head of the round loop
InitiateDialogue(self, participants, max_rounds) ==
    /\ d_pc = "idle"
    /\ d_pc' = "round"
    /\ d_self' = self
    /\ d_participants' = participants
    /\ d_max_rounds' = max_rounds
    /\ d_round' = 0
    /\ d_available' = <<self>> \o participants
    /\ d_history' = <<>>
    /\ UNCHANGED <<d_temp, d_idx, d_declined>>
    /\ UNCHANGED notDialogue

\* for round_num in range(max_rounds): enter the next round or leave the loop
RoundStart ==
    /\ d_pc = "round"
    /\ IF d_round < d_max_rounds
         THEN /\ d_pc' = "admit"
              /\ d_temp' = <<>>
              /\ d_idx' = 1
         ELSE /\ d_pc' = "memory"
              /\ UNCHANGED <<d_temp, d_idx>>
    /\ UNCHANGED <<d_self, d_participants, d_max_rounds, d_round, d_available,
                   d_history, d_declined>>
    /\ UNCHANGED notDialogue

\* one pass of the admission loop: the participant's _should_continue_dialogue
\* and the read of decision["should_join"]
Admit(reply) ==
    /\ d_pc = "admit"
    /\ d_idx <= Len(AdmissionCandidates)
    /\ LET participant_name == AdmissionCandidates[d_idx]
           decision == ShouldContinueDialogue(reply, d_history)
       IN  IF Subscriptable(decision)
             THEN /\ d_temp' = IF decision.value THEN Append(d_temp, participant_name) ELSE d_temp
                  /\ d_declined' = IF decision.value \/ d_declined[participant_name] # -1
                                     THEN d_declined
                                     ELSE [d_declined EXCEPT ![participant_name] = d_round]
                  /\ d_idx' = d_idx + 1
                  /\ UNCHANGED d_pc
             ELSE /\ d_pc' = "raised"
                  /\ UNCHANGED <<d_temp, d_declined, d_idx>>
    /\ UNCHANGED <<d_self, d_participants, d_max_rounds, d_round, d_available, d_history>>
    /\ UNCHANGED notDialogue

\* a round loop that goes on with any number of participants
AlwaysEnough(temp_participants) == TRUE

\* len(available_participants) < 2 does not hold: the round goes on
EnoughParticipants(temp_participants) == Len(temp_participants) >= 2

\* after the admission loop: available_participants = temp_participants.copy(),
\* and the break when fewer than 2 are left
AdmitDone ==
    /\ d_pc = "admit"
    /\ d_idx > Len(AdmissionCandidates)
    /\ d_available' = d_temp
    /\ IF ~EnoughParticipants(d_temp)
         THEN d_pc' = "memory" /\ UNCHANGED d_idx
         ELSE d_pc' = "turns" /\ d_idx' = 1
    /\ UNCHANGED <<d_self, d_participants, d_max_rounds, d_round, d_temp, d_history, d_declined>>
    /\ UNCHANGED notDialogue

\* _generate_dialogue_turn always returns a turn (the LLM's text, or the error
\* text when the call raises); the round is kept with it
GenerateDialogueTurn(name) == [speaker |-> name, round |-> d_round]

\* one pass of the turn loop: the initiating agent is skipped, every other
\* available participant appends its turn
ParticipantTurn ==
    /\ d_pc = "turns"
    /\ d_idx <= Len(d_available)
    /\ LET participant_name == d_available[d_idx]
       IN  d_history' = IF participant_name = d_self
                          THEN d_history
                          ELSE Append(d_history, GenerateDialogueTurn(participant_name))
    /\ d_idx' = d_idx + 1
    /\ UNCHANGED <<d_pc, d_self, d_participants, d_max_rounds, d_round, d_available,
                   d_temp, d_declined>>
    /\ UNCHANGED notDialogue

\* after the turn loop: the initiating agent's turn, then the next round
InitiatorTurn ==
    /\ d_pc = "turns"
    /\ d_idx > Len(d_available)
    /\ d_history' = Append(d_history, GenerateDialogueTurn(d_self))
    /\ d_round' = d_round + 1
    /\ d_pc' = "round"
    /\ UNCHANGED <<d_self, d_participants, d_max_rounds, d_available, d_temp, d_idx, d_declined>>
    /\ UNCHANGED notDialogue

\* after the loop: the dialogue memories (when the transcript is not empty) and
\* the return of dialogue_history
ReturnDialogue ==
    /\ d_pc = "memory"
    /\ d_pc' = "returned"
    /\ UNCHANGED <<d_self, d_participants, d_max_rounds, d_round, d_available, d_temp,
                   d_idx, d_history, d_declined>>
    /\ UNCHANGED notDialogue

(***************************************************************************)
(* DialogueManager.run_structured_dialogue.                                *)
(***************************************************************************)
\* the largest max_rounds a structured dialogue is run with
MaxRoundsSD == 11

\* the largest number of participants besides the initiating agent
MaxParticipantsSD == 2

\* the largest number of turns one run loses to empty LLM replies
MaxEmptyReplies == 1

\* the turn count at which _should_terminate_dialogue ends a dialogue
MaxTurns == 20

\* the number of last turns _should_terminate_dialogue scans for a keyword
RecentTurns == 3

\* the agents of a structured dialogue, the initiating agent first
SDNameList == <<"Sensei", "Arisu", "Midori", "Momoi", "Yuzu">>

\* what agent.llm.invoke may do: reply with no text, with text that holds no
\* closing keyword, with text that holds one, or raise
SDReplies == {"empty", "plain", "closing", "raise"}

\* _generate_agent_response: the reply's text, or on an exception the fallback
\* sentence, which quotes the topic
GenerateAgentResponse(reply, topic_closing) ==
    IF reply = "raise"
      THEN (IF topic_closing THEN "closing" ELSE "plain")
      ELSE reply

\* a _should_terminate_dialogue without the check of the transcript's length
ShouldTerminateNoCap(dialogue_history) ==
    IF Len(dialogue_history) = 0 THEN FALSE
    ELSE LET first == IF Len(dialogue_history) >= RecentTurns
                        THEN Len(dialogue_history) - RecentTurns + 1
                        ELSE 1
         IN  \E i \in first..Len(dialogue_history) : dialogue_history[i].message = "closing"

\* _should_terminate_dialogue(dialogue_history, topic)
ShouldTerminateDialogue(dialogue_history) ==
    IF Len(dialogue_history) = 0 THEN FALSE
    ELSE IF Len(dialogue_history) >= MaxTurns THEN TRUE
    ELSE LET first == IF Len(dialogue_history) >= RecentTurns
                        THEN Len(dialogue_history) - RecentTurns + 1
                        ELSE 1
         IN  \E i \in first..Len(dialogue_history) : dialogue_history[i].message = "closing"

InitStructuredVars ==
    /\ s_pc = "idle"
    /\ s_max_rounds = 0
    /\ s_all_agents = <<>>
    /\ s_topic_closing = FALSE
    /\ s_round = 0
    /\ s_idx = 1
    /\ s_history = <<>>
    /\ s_empty = 0

\* an empty reply costs a turn only while fewer than MaxEmptyReplies have; the
\* initiating agent's replies within a round are dropped whatever they are
ReplyAllowed(reply, counted) == (counted /\ reply = "empty") => s_empty < MaxEmptyReplies

CountEmpty(reply, counted) == IF counted /\ reply = "empty" THEN s_empty + 1 ELSE s_empty

\* run_structured_dialogue up to the round loop.  _prepare_dialogue_context
\* formats the expert's knowledge of the topic with .items(), which a list does
\* not have: when an expert takes part and its knowledge base returns an entry
\* (kb_hit), the call raises AttributeError before any turn.  Otherwise the
\* initiating agent's initial message is appended when it is not empty
RunStructuredDialogue(n, max_rounds, topic_closing, kb_hit, reply) ==
    /\ s_pc = "idle"
    /\ ReplyAllowed(reply, TRUE)
    /\ LET all_agents == SubSeq(SDNameList, 1, n + 1)
           initial_message == GenerateAgentResponse(reply, topic_closing)
       IN  /\ s_all_agents' = all_agents
           /\ IF kb_hit
                THEN /\ s_pc' = "raised"
                     /\ UNCHANGED <<s_history, s_empty>>
                ELSE /\ s_pc' = "round"
                     /\ s_empty' = CountEmpty(reply, TRUE)
                     /\ s_history' =
                          IF initial_message # "empty"
                            THEN <<[speaker |-> all_agents[1], message |-> initial_message]>>
                            ELSE <<>>
    /\ s_max_rounds' = max_rounds
    /\ s_topic_closing' = topic_closing
    /\ s_round' = 1
    /\ UNCHANGED s_idx
    /\ UNCHANGED notStructured

\* for round_num in range(1, max_rounds): the next round, or the return after
\* the last one
SDRoundStart ==
    /\ s_pc = "round"
    /\ IF s_round < s_max_rounds
         THEN s_pc' = "turn" /\ s_idx' = 1
         ELSE s_pc' = "returned" /\ UNCHANGED s_idx
    /\ UNCHANGED <<s_max_rounds, s_all_agents, s_topic_closing, s_round, s_history, s_empty>>
    /\ UNCHANGED notStructured

\* one pass of "for agent in all_agents": the termination check, the agent's
\* response, its append unless it is empty or the initiating agent's, and the
\* break at max_rounds * len(all_agents) turns
SDTurn(reply) ==
    /\ s_pc = "turn"
    /\ s_idx <= Len(s_all_agents)
    /\ IF ShouldTerminateDialogue(s_history)
         THEN /\ s_pc' = "returned"
              /\ UNCHANGED <<s_idx, s_history, s_empty>>
         ELSE /\ ReplyAllowed(reply, s_all_agents[s_idx] # s_all_agents[1])
              /\ s_empty' = CountEmpty(reply, s_all_agents[s_idx] # s_all_agents[1])
              /\ LET agent == s_all_agents[s_idx]
                     response == GenerateAgentResponse(reply, s_topic_closing)
                     appended == response # "empty" /\ agent # s_all_agents[1]
                     history == IF appended
                                  THEN Append(s_history, [speaker |-> agent, message |-> response])
                                  ELSE s_history
                 IN  /\ s_history' = history
                     /\ IF appended /\ Len(history) >= s_max_rounds * Len(s_all_agents)
                          THEN s_pc' = "check" /\ UNCHANGED s_idx
                          ELSE IF s_idx = Len(s_all_agents)
                                 THEN s_pc' = "check" /\ UNCHANGED s_idx
                                 ELSE s_pc' = "turn" /\ s_idx' = s_idx + 1
    /\ UNCHANGED <<s_max_rounds, s_all_agents, s_topic_closing, s_round>>
    /\ UNCHANGED notStructured

\* "check again after each full round"
SDRoundCheck ==
    /\ s_pc = "check"
    /\ IF ShouldTerminateDialogue(s_history)
         THEN s_pc' = "returned" /\ UNCHANGED s_round
         ELSE s_pc' = "round" /\ s_round' = s_round + 1
    /\ UNCHANGED <<s_max_rounds, s_all_agents, s_topic_closing, s_idx, s_history, s_empty>>
    /\ UNCHANGED notStructured

(***************************************************************************)
(* ExpertAgent.grade_exam.                                                 *)
(***************************************************************************)
\* the largest number of answers and of questions of an exam
MaxQuestions == 3

\* the score of a question whose reply gives none, or whose grading call fails
DefaultScore == 5

\* the points of one question
PointsPerQuestion == 10

\* the 'score' values a JSON reply may carry
GradeScores == {-1, 0, 7, 10, 11}

\* what the grading LLM call may do: reply with a JSON object with a numeric
\* 'score', with a 'score' that is no number, or with no 'score'; reply without
\* a '{'...'}' span; reply with a span that is no JSON; or raise
GradeReplies ==
    {[kind |-> "json", score |-> v] : v \in GradeScores}
    \cup {[kind |-> k, score |-> 0] : k \in {"json_text", "json_no_score", "no_json", "bad_json", "raise"}}

\* the entry of grading_results for a reply: the score, whether it is a number,
\* and whether the grading call failed
GradeOne(reply) ==
    CASE reply.kind = "json"          -> [score |-> reply.score, numeric |-> TRUE, failed |-> FALSE]
      [] reply.kind = "json_text"     -> [score |-> 0, numeric |-> FALSE, failed |-> FALSE]
      [] reply.kind = "json_no_score" -> [score |-> DefaultScore, numeric |-> TRUE, failed |-> FALSE]
      [] OTHER                        -> [score |-> DefaultScore, numeric |-> TRUE, failed |-> TRUE]

Min(a, b) == IF a <= b THEN a ELSE b

RECURSIVE SumScores(_)
SumScores(results) ==
    IF results = <<>> THEN 0 ELSE Head(results).score + SumScores(Tail(results))

InitExamVars ==
    /\ g_pc = "idle"
    /\ g_n_answers = 0
    /\ g_n_questions = 0
    /\ g_results = <<>>
    /\ g_ret = [num |-> 0, den |-> 1, max_score |-> 0]

\* grade_exam(student_name, answers, exam_questions) up to the loop
GradeExam(n_answers, n_questions) ==
    /\ g_pc = "idle"
    /\ g_pc' = "grading"
    /\ g_n_answers' = n_answers
    /\ g_n_questions' = n_questions
    /\ g_results' = <<>>
    /\ UNCHANGED g_ret
    /\ UNCHANGED notExam

\* one pass of "for i, (answer, question) in enumerate(zip(answers, exam_questions))"
GradeQuestion(reply) ==
    /\ g_pc = "grading"
    /\ Len(g_results) < Min(g_n_answers, g_n_questions)
    /\ g_results' = Append(g_results, GradeOne(reply))
    /\ UNCHANGED <<g_pc, g_n_answers, g_n_questions, g_ret>>
    /\ UNCHANGED notExam

\* after the loop: the total (sum raises TypeError on a score that is no
\* number), overall_score = (total_score / max_score) * 100 kept as the
\* fraction num/den, and the return
GradeFinish ==
    /\ g_pc = "grading"
    /\ Len(g_results) = Min(g_n_answers, g_n_questions)
    /\ LET max_score == g_n_answers * PointsPerQuestion
       IN  IF \E i \in 1..Len(g_results) : ~g_results[i].numeric
             THEN g_pc' = "raised" /\ UNCHANGED g_ret
             ELSE /\ g_pc' = "returned"
                  /\ g_ret' = IF max_score > 0
                                THEN [num |-> SumScores(g_results) * 100, den |-> max_score,
                                      max_score |-> max_score]
                                ELSE [num |-> 0, den |-> 1, max_score |-> max_score]
    /\ UNCHANGED <<g_n_answers, g_n_questions, g_results>>
    /\ UNCHANGED notExam

(***************************************************************************)
(* ExpertAgent.get_next_teaching_topic: the per-student curriculum cursor. *)
(***************************************************************************)
\* the largest number of topics of a curriculum
MaxTopics == 3

\* the largest number of get_next_teaching_topic calls for one student
MaxCalls == 8

StudentNames == {"Arisu", "Midori"}

\* the topics of the knowledge base, in the order generate_curriculum lists them
TopicList == <<"t1", "t2", "t3", "t4", "t5">>

\* the topic returned for an empty curriculum
GenericTopic == "generic"

InitCurriculumVars ==
    /\ c_ready = FALSE
    /\ curriculum_sequence = <<>>
    /\ teaching_progress = [st \in StudentNames |-> -1]
    /\ c_calls = [st \in StudentNames |-> 0]
    /\ c_topic = [st \in StudentNames |-> None]
    /\ c_sessions = 0
    /\ c_group = <<>>

\* ExpertAgent.__init__: the curriculum of a knowledge base with n topics, and
\* no teaching progress
GenerateCurriculum(n) ==
    /\ ~c_ready
    /\ c_ready' = TRUE
    /\ curriculum_sequence' = SubSeq(TopicList, 1, n)
    /\ teaching_progress' = [st \in StudentNames |-> -1]
    /\ UNCHANGED <<c_calls, c_topic, c_sessions, c_group>>
    /\ UNCHANGED notCurriculum

\* a get_next_teaching_topic that restarts at the cursor 0 once the curriculum
\* is exhausted, so that the topic at index 0 is served twice in a row
NextTeachingTopicRestart(sequence, current_index) ==
    IF current_index < Len(sequence)
      THEN [topic |-> sequence[current_index + 1], progress |-> current_index + 1]
      ELSE [topic |-> IF Len(sequence) > 0 THEN sequence[1] ELSE GenericTopic,
            progress |-> 0]

\* a get_next_teaching_topic that, once the curriculum is exhausted, returns the
\* topic at index 1 and leaves the cursor at 2
NextTeachingTopicSkip(sequence, current_index) ==
    IF current_index < Len(sequence)
      THEN [topic |-> sequence[current_index + 1], progress |-> current_index + 1]
      ELSE IF Len(sequence) > 1
             THEN [topic |-> sequence[2], progress |-> 2]
             ELSE [topic |-> IF Len(sequence) > 0 THEN sequence[1] ELSE GenericTopic,
                   progress |-> 1]

\* get_next_teaching_topic from the cursor current_index on: the topic it
\* returns and the cursor it leaves (indexes count from 0 as in the code)
NextTeachingTopic(sequence, current_index) ==
    IF current_index < Len(sequence)
      THEN [topic |-> sequence[current_index + 1], progress |-> current_index + 1]
      ELSE [topic |-> IF Len(sequence) > 0 THEN sequence[1] ELSE GenericTopic,
            progress |-> 1]

\* get_next_teaching_topic(student_name)
GetNextTeachingTopic(student_name) ==
    /\ c_ready
    /\ c_calls[student_name] < MaxCalls
    /\ LET current_index == IF teaching_progress[student_name] = -1
                              THEN 0
                              ELSE teaching_progress[student_name]
           r == NextTeachingTopic(curriculum_sequence, current_index)
       IN  /\ teaching_progress' = [teaching_progress EXCEPT ![student_name] = r.progress]
           /\ c_topic' = [c_topic EXCEPT ![student_name] = r.topic]
    /\ c_calls' = [c_calls EXCEPT ![student_name] = @ + 1]
    /\ UNCHANGED <<c_ready, curriculum_sequence, c_sessions, c_group>>
    /\ UNCHANGED notCurriculum

\* the largest number of group-teaching calls
MaxSessions == 3

\* the lists of students a group-teaching call may be given: the students at
\* the expert's location, each once
StudentLists ==
    {l \in UNION {[1..n -> StudentNames] : n \in 0..Cardinality(StudentNames)} :
        \A i, j \in 1..Len(l) : l[i] = l[j] => i = j}

\* the cursor update of teach's loop over all_students
AdvanceCursor(sequence, current_index) ==
    IF current_index < Len(sequence) THEN current_index + 1 ELSE 1

\* teach(student, topic=None, all_students=all_students) up to the choice of
\* the topic: get_next_teaching_topic for the first student, then the loop
\* that updates the progress of every student of the list
GroupTeach(all_students) ==
    /\ c_ready
    /\ c_sessions < MaxSessions
    /\ c_sessions' = c_sessions + 1
    /\ c_group' = all_students
    /\ IF all_students = <<>>
         THEN UNCHANGED <<teaching_progress, c_calls, c_topic>>
         ELSE LET first_student_name == all_students[1]
                  Index(progress, st) == IF progress[st] = -1 THEN 0 ELSE progress[st]
                  r == NextTeachingTopic(curriculum_sequence,
                                         Index(teaching_progress, first_student_name))
                  after_first == [teaching_progress EXCEPT ![first_student_name] = r.progress]
                  listed == {all_students[i] : i \in 1..Len(all_students)}
              IN  /\ c_calls[first_student_name] < MaxCalls
                  /\ c_calls' = [c_calls EXCEPT ![first_student_name] = @ + 1]
                  /\ c_topic' = [c_topic EXCEPT ![first_student_name] = r.topic]
                  /\ teaching_progress' =
                        [st \in StudentNames |->
                            IF st \in listed
                              THEN AdvanceCursor(curriculum_sequence, Index(after_first, st))
                              ELSE after_first[st]]
    /\ UNCHANGED <<c_ready, curriculum_sequence>>
    /\ UNCHANGED notCurriculum

(***************************************************************************)
(* BaseAgent.create_daily_schedule and get_action_for_time_slot.           *)
(***************************************************************************)
\* the keys of a schedule
TimeSlots == {"morning_1", "morning_2", "afternoon_1", "afternoon_2", "evening"}

\* a key that a dict does not hold
Absent == "Absent"

\* schedule[slot] when the schedule has no such key
NoEntry == [kind |-> "absent", activity |-> Absent, location |-> Absent, reason |-> Absent]

\* an entry {"activity": a, "location": l, "reason": r}
Entry(a, l, r) == [kind |-> "dict", activity |-> a, location |-> l, reason |-> r]

\* the schedule both fallbacks assign: self-study in the library, class in the
\* classroom, free time in the park, in the cafe and in the park again, each
\* with the reason "default arrangement"
DefaultSchedule ==
    [slot \in TimeSlots |->
       CASE slot = "morning_1"   -> Entry("self_study", "library_zh", "default")
         [] slot = "morning_2"   -> Entry("class", "classroom_zh", "default")
         [] slot = "afternoon_1" -> Entry("free_time", "park_zh", "default")
         [] slot = "afternoon_2" -> Entry("free_time", "cafe_zh", "default")
         [] OTHER                -> Entry("free_time", "park_zh", "default")]

\* self.current_schedule = {} of a new agent
EmptySchedule == [slot \in TimeSlots |-> NoEntry]

\* the member lists an LLM may put between the braces of its JSON object: a
\* schedule of five entries, one whose entries lack "location", one whose
\* values are strings instead of objects, and one with a single slot
BodyTokens == {"five_slots", "no_location", "not_objects", "one_slot"}

\* the object a member list decodes to
DecodeBody(body) ==
    CASE body = "five_slots"  -> [slot \in TimeSlots |-> Entry("study", "classroom", "llm")]
      [] body = "no_location" -> [slot \in TimeSlots |->
                                    [kind |-> "dict", activity |-> "study",
                                     location |-> Absent, reason |-> "llm"]]
      [] body = "not_objects" -> [slot \in TimeSlots |->
                                    [kind |-> "str", activity |-> Absent,
                                     location |-> Absent, reason |-> Absent]]
      [] OTHER                -> [slot \in TimeSlots |->
                                    IF slot = "morning_1" THEN Entry("study", "park", "llm")
                                    ELSE NoEntry]

\* what a reply is made of: braces, member lists and any other text
ReplyTokens == {"{", "}", "text"} \cup BodyTokens

\* the longest reply, in tokens
MaxReplyLen == 4

\* str.find(c): the first position of c (from 1), or 0 where Python gives -1
Find(text, c) ==
    IF \E i \in 1..Len(text) : text[i] = c
      THEN CHOOSE i \in 1..Len(text) : text[i] = c /\ \A j \in 1..(i-1) : text[j] # c
      ELSE 0

\* str.rfind(c): the last position of c (from 1), or 0 where Python gives -1
RFind(text, c) ==
    IF \E i \in 1..Len(text) : text[i] = c
      THEN CHOOSE i \in 1..Len(text) : text[i] = c /\ \A j \in (i+1)..Len(text) : text[j] # c
      ELSE 0

\* schedule_text[start_idx:end_idx], empty when the last '}' is before the first '{'
JsonSpan(text) == SubSeq(text, Find(text, "{"), RFind(text, "}"))

\* a json.loads that accepts every string and decodes what it cannot read to {}
JsonLoadsLenient(json_str) == [ok |-> TRUE, value |-> EmptySchedule]

\* json.loads(json_str): the decoded object, or ok = FALSE for JSONDecodeError
JsonLoads(json_str) ==
    IF json_str = <<"{", "}">>
      THEN [ok |-> TRUE, value |-> EmptySchedule]
      ELSE IF Len(json_str) = 3 /\ json_str[1] = "{" /\ json_str[2] \in BodyTokens
                /\ json_str[3] = "}"
             THEN [ok |-> TRUE, value |-> DecodeBody(json_str[2])]
             ELSE [ok |-> FALSE, value |-> EmptySchedule]

\* the schedule create_daily_schedule assigns and returns; raises says that
\* invoke_llm raised instead of returning schedule_text
CreateDailyScheduleResult(raises, schedule_text) ==
    IF raises
      THEN DefaultSchedule
      ELSE IF Find(schedule_text, "{") # 0 /\ RFind(schedule_text, "}") # 0
             THEN LET decoded == JsonLoads(JsonSpan(schedule_text))
                  IN  IF decoded.ok THEN decoded.value ELSE DefaultSchedule
             ELSE DefaultSchedule

InitScheduleVars ==
    /\ current_schedule = EmptySchedule
    /\ sch_call = [op |-> "none", raises |-> FALSE, text |-> <<>>, ret |-> EmptySchedule,
                   error |-> FALSE]

\* create_daily_schedule(date, world_map, global_schedule, personal_memories) up
\* to its invoke_llm: the prompt is built and the call waits for the LLM
InvokeLLMForSchedule ==
    /\ sch_call.op # "invoke_llm"
    /\ sch_call' = [op |-> "invoke_llm", raises |-> FALSE, text |-> <<>>,
                    ret |-> EmptySchedule, error |-> FALSE]
    /\ UNCHANGED current_schedule
    /\ UNCHANGED notSchedule

\* the LLM writes the next piece of its reply
ScheduleReplyToken(token) ==
    /\ sch_call.op = "invoke_llm"
    /\ Len(sch_call.text) < MaxReplyLen
    /\ sch_call' = [sch_call EXCEPT !.text = Append(@, token)]
    /\ UNCHANGED current_schedule
    /\ UNCHANGED notSchedule

\* create_daily_schedule from the return (or the raise) of invoke_llm to its own
\* return: every statement that can raise is inside the try, so no error leaves
\* the call
CreateDailySchedule(raises) ==
    /\ sch_call.op = "invoke_llm"
    /\ current_schedule' = CreateDailyScheduleResult(raises, sch_call.text)
    /\ sch_call' = [op |-> "create_daily_schedule", raises |-> raises,
                    text |-> IF raises THEN <<>> ELSE sch_call.text,
                    ret |-> CreateDailyScheduleResult(raises, sch_call.text),
                    error |-> FALSE]
    /\ UNCHANGED notSchedule

\* get_action_for_time_slot(time_slot): self.current_schedule.get(time_slot, {...}),
\* the default entry naming the agent's current location
GetActionForTimeSlot(schedule, time_slot, location) ==
    IF schedule[time_slot].kind = "absent"
      THEN Entry("free_time", IF location # None THEN location ELSE "unknown_place", "unplanned")
      ELSE schedule[time_slot]

\* start_simulation, one agent's step after its schedule is made: the reads
\* action['location'], action['activity'] and action['reason'] are outside any
\* try, so an entry that is no object (TypeError) or lacks a key (KeyError)
\* ends the simulation
ActForTimeSlot(time_slot, location) ==
    /\ sch_call.op # "invoke_llm"
    /\ LET action == GetActionForTimeSlot(current_schedule, time_slot, location)
       IN  sch_call' = [op |-> "act", raises |-> FALSE, text |-> <<>>,
                        ret |-> current_schedule,
                        error |-> (\/ action.kind # "dict"
                                   \/ Absent \in {action.location, action.activity,
                                                   action.reason})]
    /\ UNCHANGED current_schedule
    /\ UNCHANGED notSchedule

(***************************************************************************)
(* WorldSimulator.handle_interactions: the pass over one location where    *)
(* more than one agent stands.                                             *)
(***************************************************************************)
\* agent.is_expert: the one expert of the simulation
IsExpert(a) == a = "Sensei"

\* the lists of at least two agents that may be grouped at a location
CoLocated == UNION {Orderings(S) : S \in {T \in SUBSET AgentNames : Cardinality(T) >= 2}}

\* a memory record as far as the pass decides it: its type and ten times its weight
Memory(type, weight10) == [type |-> type, weight |-> weight10]

\* the records of this type that the pass added to the agent's store
NewOfType(a, type) == SelectSeq(h_new[a], LAMBDA m : m.type = type)

\* values of random.random(), in tenths: each lies in [0, 1)
Draws == {0, 5, 7, 8, 9}

\* the largest max_dialogue_rounds of the system configuration
MaxDialogueRounds == 2

\* what a call of initiate_dialogue may come to: an uncaught error, an empty
\* transcript, or a transcript with turns
DialogueOutcomes == {"raise", "empty", "turns"}

InitInteractionVars ==
    /\ h_pc = "idle"
    /\ h_in = [base_agents |-> FALSE, is_social_location |-> FALSE, draw |-> 0,
               teach_draw |-> 0]
    /\ h_agent_names = <<>>
    /\ h_participating = <<>>
    /\ h_idx = 1
    /\ h_new = [a \in AgentNames |-> <<>>]
    /\ h_logs = 0
    /\ h_teach = 0
    /\ h_branch = "none"
    /\ h_dialogue = [history |-> <<>>, continue_calls |-> 0, max_rounds |-> 0]

\* whether the co-located agents hold the expert and at least one student
ExpertWithStudents(names) ==
    /\ \E i \in 1..Len(names) : IsExpert(names[i])
    /\ \E i \in 1..Len(names) : ~IsExpert(names[i])

\* a base_prob that is clamped below 1
BaseProbClamped(agent_names, is_social_location) ==
    LET expert_count == Cardinality({i \in 1..Len(agent_names) : IsExpert(agent_names[i])})
        student_count == Len(agent_names) - expert_count
        sum == (IF is_social_location THEN 8 ELSE 5)
               + (IF student_count > 1 THEN 3 ELSE 0)
               + (IF expert_count > 0 /\ student_count > 0 THEN 2 ELSE 0)
    IN  IF sum > 9 THEN 9 ELSE sum

\* base_prob of _should_agents_interact, in tenths
BaseProb(agent_names, is_social_location) ==
    LET expert_count == Cardinality({i \in 1..Len(agent_names) : IsExpert(agent_names[i])})
        student_count == Len(agent_names) - expert_count
    IN  (IF is_social_location THEN 8 ELSE 5)
        + (IF student_count > 1 THEN 3 ELSE 0)
        + (IF expert_count > 0 /\ student_count > 0 THEN 2 ELSE 0)

\* _should_agents_interact(agent_names, location): random.random() < base_prob
ShouldAgentsInteract(agent_names, is_social_location, draw) ==
    draw < BaseProb(agent_names, is_social_location)

\* should_teach of _should_expert_teach_randomly: random.random() <= 1
ShouldExpertTeachRandomly(draw) == draw <= 10

\* the pass for one location up to the admission loop.  base_agents: the
\* registered agents are plain BaseAgent objects, not ExpertAgent and
\* StudentAgent objects; draw and teach_draw are the values of random.random()
\* in _should_agents_interact and in _should_expert_teach_randomly (read only
\* without interaction, when the expert stands with students).  A decision to
\* teach calls teach(student_agent.name, topic), which is given a name where it
\* reads student.name: AttributeError, outside any try.  A pass keeps nothing of
\* the pass before it, so one pass is followed
HandleInteractions(agent_names, base_agents, is_social_location, draw, teach_draw) ==
    /\ h_pc = "idle"
    /\ LET should_interact == ShouldAgentsInteract(agent_names, is_social_location, draw)
           draws_again == ~should_interact /\ ExpertWithStudents(agent_names)
       IN  /\ ~draws_again => teach_draw = 0
           /\ IF should_interact
                THEN h_pc' = "admission" /\ h_teach' = 0 /\ h_branch' = "interact"
                ELSE /\ h_branch' = "no_interaction"
                     /\ IF draws_again /\ ShouldExpertTeachRandomly(teach_draw)
                          THEN h_pc' = "raised" /\ h_teach' = 1
                          ELSE h_pc' = "done" /\ h_teach' = 0
    /\ h_in' = [base_agents |-> base_agents, is_social_location |-> is_social_location,
                draw |-> draw, teach_draw |-> teach_draw]
    /\ h_agent_names' = agent_names
    /\ h_participating' = <<>>
    /\ h_idx' = 1
    /\ h_new' = [a \in AgentNames |-> <<>>]
    /\ h_logs' = 0
    /\ h_dialogue' = [history |-> <<>>, continue_calls |-> 0, max_rounds |-> 0]
    /\ UNCHANGED notInteractions

\* one pass of the admission loop, should_join_dialogue_based_on_context: an
\* ExpertAgent joins whenever another agent is listed; a StudentAgent joins
\* when its memories hold the topic (joins) or a listed name reads like a
\* teacher's; a BaseAgent joins as the LLM's JSON says
JoinDecision(joins) ==
    /\ h_pc = "admission"
    /\ LET agent_name == h_agent_names[h_idx]
           should_join == IF IsExpert(agent_name) /\ ~h_in.base_agents
                            THEN Len(h_agent_names) > 1 ELSE joins
       IN  /\ (IsExpert(agent_name) /\ ~h_in.base_agents) => joins
           /\ h_participating' = IF should_join THEN Append(h_participating, agent_name)
                                 ELSE h_participating
    /\ h_idx' = h_idx + 1
    /\ h_pc' = IF h_idx = Len(h_agent_names) THEN "admitted" ELSE "admission"
    /\ UNCHANGED <<h_in, h_agent_names, h_new, h_logs, h_teach, h_branch, h_dialogue>>
    /\ UNCHANGED notInteractions

\* an override that does not look at the list of participants first
OverrideWithoutGuard(self, participants, max_rounds, outcome) ==
    [raises |-> outcome = "raise",
     history |-> IF outcome = "turns" THEN <<[speaker |-> self]>> ELSE <<>>,
     continue_calls |-> 0,
     memories |-> {}]

\* initiate_dialogue of ExpertAgent and of StudentAgent: no participants, no
\* transcript; else the knowledge-base context (topic_knowledge['topic'] on the
\* list that get_kb_content_by_topic returns is a TypeError outside the try:
\* "raise"), then one LLM call, whose error gives the empty transcript
\* ("empty") and whose reply is the only turn ("turns").  max_rounds is not
\* read, and _should_continue_dialogue is not called
OverrideInitiateDialogue(self, participants, max_rounds, outcome) ==
    IF participants = <<>>
      THEN [raises |-> FALSE, history |-> <<>>, continue_calls |-> 0, memories |-> {}]
      ELSE [raises |-> outcome = "raise",
            history |-> IF outcome = "turns" THEN <<[speaker |-> self]>> ELSE <<>>,
            continue_calls |-> 0,
            memories |-> {}]

\* initiate_dialogue of BaseAgent, one round of it: the continuation decisions
\* of all participants (an uncaught error when a fallback decision is read:
\* "raise"), the break without turns when fewer than 2 go on ("empty"), else
\* the turns of the others and of the initiating agent ("turns") and, for a
\* transcript with turns, _generate_dialogue_memory for the initiating agent and
\* for every participant
BaseInitiateDialogue(self, participants, max_rounds, outcome) ==
    IF max_rounds = 0
      THEN [raises |-> FALSE, history |-> <<>>, continue_calls |-> 0, memories |-> {}]
      ELSE [raises |-> outcome = "raise",
            history |-> IF outcome = "turns"
                          THEN [i \in 1..Len(participants) |-> [speaker |-> participants[i]]]
                               \o <<[speaker |-> self]>>
                          ELSE <<>>,
            continue_calls |-> 1 + Len(participants),
            memories |-> IF outcome = "turns"
                           THEN {self} \cup SeqToSet(participants) ELSE {}]

\* at least two joined: initiate_dialogue of the first one, then, for a
\* transcript with turns, the log file, a 'dialogue' memory for every agent
\* that joined, and the teaching decision when the expert joined with students
StartDialogue(max_rounds, outcome) ==
    /\ h_pc = "admitted"
    /\ Len(h_participating) >= 2
    /\ h_branch' = "dialogue"
    /\ LET self == h_participating[1]
           participants == Tail(h_participating)
           call == IF h_in.base_agents
                     THEN BaseInitiateDialogue(self, participants, max_rounds, outcome)
                     ELSE OverrideInitiateDialogue(self, participants, max_rounds, outcome)
           after_call == [a \in AgentNames |->
                            IF a \in call.memories
                              THEN Append(h_new[a], Memory("dialogue", 12)) ELSE h_new[a]]
       IN  /\ (h_in.base_agents /\ max_rounds = 0) => outcome = "empty"
           /\ h_dialogue' = [history |-> call.history,
                             continue_calls |-> call.continue_calls,
                             max_rounds |-> max_rounds]
           /\ IF call.raises
                THEN h_pc' = "raised" /\ UNCHANGED <<h_new, h_logs>>
                ELSE IF call.history = <<>>
                       THEN h_pc' = "done" /\ UNCHANGED <<h_new, h_logs>>
                       ELSE /\ h_logs' = h_logs + 1
                            /\ h_new' = [a \in AgentNames |->
                                           IF Contains(h_participating, a)
                                             THEN Append(after_call[a], Memory("dialogue", 12))
                                             ELSE after_call[a]]
                            /\ h_pc' = IF ExpertWithStudents(h_participating)
                                         THEN "teach_decision" ELSE "done"
    /\ UNCHANGED <<h_in, h_agent_names, h_participating, h_idx, h_teach>>
    /\ UNCHANGED notInteractions

\* initiate_dialogue of an ExpertAgent or a StudentAgent called on its own, as
\* the tests do, with any list of participants
InitiateDialogueDirectly(self, participants, max_rounds, outcome) ==
    /\ h_pc = "idle"
    /\ LET call == OverrideInitiateDialogue(self, participants, max_rounds, outcome)
       IN  /\ h_dialogue' = [history |-> call.history,
                             continue_calls |-> call.continue_calls,
                             max_rounds |-> max_rounds]
           /\ h_pc' = IF call.raises THEN "raised" ELSE "done"
    /\ h_in' = [base_agents |-> FALSE, is_social_location |-> FALSE, draw |-> 0,
                teach_draw |-> 0]
    /\ h_branch' = "direct"
    /\ h_agent_names' = <<>>
    /\ h_participating' = <<self>> \o participants
    /\ h_idx' = 1
    /\ h_new' = [a \in AgentNames |-> <<>>]
    /\ h_logs' = 0
    /\ h_teach' = 0
    /\ UNCHANGED notInteractions

\* a _record_failed_dialogue that writes only to the agents that joined
FailedDialogueRecipientsJoined(all_agents, participating_agents) == participating_agents

\* _record_failed_dialogue: the agents whose store gets the record
FailedDialogueRecipients(all_agents, participating_agents) == all_agents

\* fewer than two joined: _record_failed_dialogue and nothing else
RecordFailedDialogue ==
    /\ h_pc = "admitted"
    /\ Len(h_participating) < 2
    /\ h_branch' = "failed_dialogue"
    /\ h_new' = [a \in AgentNames |->
                   IF Contains(FailedDialogueRecipients(h_agent_names, h_participating), a)
                     THEN Append(h_new[a], Memory("failed_dialogue", 8))
                     ELSE h_new[a]]
    /\ h_pc' = "done"
    /\ UNCHANGED <<h_in, h_agent_names, h_participating, h_idx, h_logs, h_teach, h_dialogue>>
    /\ UNCHANGED notInteractions

\* what the LLM may answer to _should_expert_teach: an object with should_teach
\* true or false, an object without that key, text with no '{'...'}' span, or
\* an exception (a span that is no JSON included)
TeachReplies == {"teach", "no_teach", "no_key", "no_json", "raise"}

\* after a dialogue of the expert with students: _should_expert_teach and the
\* read of should_teach_decision["should_teach"] (KeyError when the object
\* lacks the key); long_content is len(dialogue_content) > 10.  A decision to
\* teach calls teach(student_agent.name, topic), which raises as above
PostDialogueTeach(reply, long_content) ==
    /\ h_pc = "teach_decision"
    /\ LET should_teach == \/ reply = "teach"
                           \/ reply = "no_json" /\ long_content
       IN  IF reply = "no_key"
             THEN h_pc' = "raised" /\ UNCHANGED h_teach
             ELSE IF should_teach
                    THEN h_pc' = "raised" /\ h_teach' = h_teach + 1
                    ELSE h_pc' = "done" /\ UNCHANGED h_teach
    /\ UNCHANGED <<h_in, h_agent_names, h_participating, h_idx, h_new, h_logs, h_branch,
                   h_dialogue>>
    /\ UNCHANGED notInteractions

(***************************************************************************)
(* The core behaviours: ExpertAgent.teach (one student) and                *)
(* answer_question, StudentAgent.ask_question, study_topic and             *)
(* ask_teacher_for_help.                                                   *)
(***************************************************************************)
Behaviours == {"teach", "answer_question", "ask_question", "study_topic",
               "ask_teacher_for_help"}

\* whose long_term_memory the behaviour writes to
ActorOf(behaviour) ==
    IF behaviour \in {"teach", "answer_question"} THEN "expert" ELSE "student"

\* the 'type' of the record the behaviour adds after its LLM call returned
MemoryTypeOf(behaviour) ==
    CASE behaviour = "teach"           -> "teaching"
      [] behaviour = "answer_question" -> "question_answer"
      [] behaviour = "ask_question"    -> "question_asked"
      [] behaviour = "study_topic"     -> "studying"
      [] OTHER                         -> "help_request"

\* a behaviour is called while the stores hold fewer records than this
MaxBehaviourMemos == 3

InitBehaviourVars ==
    /\ b_store = [actor \in {"expert", "student"} |-> <<>>]
    /\ b_call = [op |-> "none", llm_raises |-> FALSE, llm_calls |-> 0, ret |-> "none",
                 added |-> 0]

\* one call of a behaviour.  The add_memory is inside the try, after the LLM
\* call: when the call raises, the except branch returns the error text (for
\* ask_teacher_for_help the fallback dict) and adds nothing.
\* ask_teacher_for_help passes its question to teacher.answer_question, whose
\* own LLM call may raise (teacher_raises) and whose record goes to the expert
Behave(behaviour, llm_raises, teacher_raises) ==
    /\ \A actor \in {"expert", "student"} : Len(b_store[actor]) < MaxBehaviourMemos
    /\ (behaviour # "ask_teacher_for_help" \/ llm_raises) => ~teacher_raises
    /\ LET actor == ActorOf(behaviour)
           asks_teacher == behaviour = "ask_teacher_for_help" /\ ~llm_raises
           own == IF llm_raises THEN <<>> ELSE <<MemoryTypeOf(behaviour)>>
           answered == IF asks_teacher /\ ~teacher_raises
                         THEN <<MemoryTypeOf("answer_question")>> ELSE <<>>
       IN  /\ b_store' = [a \in {"expert", "student"} |->
                            b_store[a] \o (IF a = "expert" THEN answered ELSE <<>>)
                                       \o (IF a = actor THEN own ELSE <<>>)]
           /\ b_call' = [op |-> behaviour, llm_raises |-> llm_raises,
                         llm_calls |-> IF asks_teacher THEN 2 ELSE 1,
                         ret |-> IF llm_raises THEN "degraded" ELSE "content",
                         added |-> Len(own)]
    /\ UNCHANGED notBehaviours

(***************************************************************************)
(* LongTermMemory.get_memories_by_topic.                                   *)
(***************************************************************************)
\* the store is searched while it holds at most this many records
MaxTopicMemos == 3

\* the largest limit a search is called with
MaxLimit == 3

\* twice the topic_relevance of a record: 2 when its content contains the
\* topic, 1 for every string value of details that contains it, 0.5 for every
\* item of a list in details that contains it
TopicRelevance2(memory) ==
    (IF memory.content THEN 4 ELSE 0) + 2 * memory.strings + memory.items

\* a sort that leaves the list as it is
KeepOrder(results) == results

\* where list.sort(reverse=True) puts x in a list already sorted: after the
\* entries whose key is not smaller (the sort is stable)
InsertDesc(sorted, x) ==
    LET n == Cardinality({i \in 1..Len(sorted) : sorted[i].key >= x.key})
    IN  SubSeq(sorted, 1, n) \o <<x>> \o SubSeq(sorted, n + 1, Len(sorted))

RECURSIVE SortDesc(_)
\* results.sort(key=..., reverse=True) on a list of [key, memory] entries
SortDesc(results) ==
    IF results = <<>> THEN <<>>
    ELSE InsertDesc(SortDesc(SubSeq(results, 1, Len(results) - 1)), results[Len(results)])

\* results[:limit] for a limit that is not negative
Take(results, limit) == SubSeq(results, 1, IF limit < Len(results) THEN limit ELSE Len(results))

\* get_memories_by_topic(topic, limit) on a list of records
GetMemoriesByTopic(memos_, limit) ==
    LET scored == [i \in 1..Len(memos_) |->
                     [key |-> TopicRelevance2(memos_[i]), memory |-> memos_[i]]]
        results == SelectSeq(scored, LAMBDA r : r.key > 0)
        top == Take(SortDesc(results), limit)
    IN  [i \in 1..Len(top) |-> top[i].memory]

InitTopicVars ==
    /\ t_memos = <<>>
    /\ t_call = [op |-> "none", limit |-> 0, result |-> <<>>]

\* add_memory of a new record: whether its content contains the topic, how many
\* string values and how many list items of its details contain it
AddTopicMemory(content, strings, items) ==
    /\ Len(t_memos) < MaxTopicMemos
    /\ t_memos' = Append(t_memos, [id |-> Len(t_memos) + 1, content |-> content,
                                   strings |-> strings, items |-> items])
    /\ t_call' = [op |-> "add_memory", limit |-> 0, result |-> <<>>]
    /\ UNCHANGED notTopicSearch

\* a caller's get_memories_by_topic(topic, limit)
SearchByTopic(limit) ==
    /\ t_call' = [op |-> "get_memories_by_topic", limit |-> limit,
                  result |-> GetMemoriesByTopic(t_memos, limit)]
    /\ UNCHANGED t_memos
    /\ UNCHANGED notTopicSearch

(***************************************************************************)
(* ExpertAgent.create_exam.                                                *)
(***************************************************************************)
\* the largest num_questions an exam is created with
MaxExamQuestions == 4

\* the 'topic' of a question whose JSON names a topic the knowledge base lacks
ForeignTopic == "not_in_kb"

RECURSIVE Repeat(_, _)
\* all_topics * times
Repeat(list, times) == IF times <= 0 THEN <<>> ELSE list \o Repeat(list, times - 1)

\* selected_topics: the first num_questions topics of the curriculum sequence
\* (of all_topics when the sequence is empty), filled up from repetitions of
\* all_topics when they are too few
SelectedTopics(sequence, all_topics, num_questions) ==
    LET first == Take(IF sequence # <<>> THEN sequence ELSE all_topics, num_questions)
    IN  IF Len(first) < num_questions
          THEN Take(first \o Repeat(all_topics, (num_questions \div Len(all_topics)) + 1),
                    num_questions)
          ELSE first

\* what the LLM may answer to the prompt for one question: a JSON object that
\* names the asked topic, one that names another topic, one without "topic",
\* text with no '{'...'}' span (or a span that is no JSON), or an exception
ExamReplies == {"same_topic", "other_topic", "no_topic", "no_json", "raise"}

\* the entry one pass of the loop appends: the decoded JSON object as it is, or
\* the generic question for the topic when anything in the try raised
ExamQuestionFor(topic, reply) ==
    CASE reply = "same_topic"  -> [asked |-> topic, topic |-> topic, fallback |-> FALSE]
      [] reply = "other_topic" -> [asked |-> topic, topic |-> ForeignTopic, fallback |-> FALSE]
      [] reply = "no_topic"    -> [asked |-> topic, topic |-> Absent, fallback |-> FALSE]
      [] OTHER                 -> [asked |-> topic, topic |-> topic, fallback |-> TRUE]

InitCreateExamVars ==
    /\ x_pc = "idle"
    /\ x_num_questions = 0
    /\ x_selected = <<>>
    /\ x_questions = <<>>

\* create_exam(num_questions) up to its loop; get_all_topics() lists the topics
\* the curriculum was generated from.  Without topics it returns []
CreateExam(num_questions) ==
    /\ c_ready
    /\ x_pc \in {"idle", "returned"}
    /\ x_num_questions' = num_questions
    /\ x_questions' = <<>>
    /\ LET all_topics == curriculum_sequence
       IN  IF all_topics = <<>>
             THEN x_pc' = "returned" /\ x_selected' = <<>>
             ELSE /\ x_pc' = "asking"
                  /\ x_selected' = SelectedTopics(curriculum_sequence, all_topics,
                                                  num_questions)
    /\ UNCHANGED <<currVars, notCreateExam>>

\* one pass of the loop over selected_topics; after the last one the list is returned
ExamQuestion(reply) ==
    /\ x_pc = "asking"
    /\ LET topic == x_selected[Len(x_questions) + 1]
       IN  x_questions' = Append(x_questions, ExamQuestionFor(topic, reply))
    /\ x_pc' = IF Len(x_questions) + 1 = Len(x_selected) THEN "returned" ELSE "asking"
    /\ UNCHANGED <<x_num_questions, x_selected>>
    /\ UNCHANGED <<currVars, notCreateExam>>

(***************************************************************************)
(* WorldSimulator.start_simulation: the exam stages and the day loop.      *)
(***************************************************************************)
\* the largest total_days of the system configuration
MaxDays == 2

\* the largest number of time slots of the system configuration
MaxSlots == 2

\* the agents of agents_list that are no expert
Students(agents_list) == {a \in SeqToSet(agents_list) : ~IsExpert(a)}

\* expert_agent is set: some agent of agents_list is an expert
HasExpert(agents_list) == \E i \in 1..Len(agents_list) : IsExpert(agents_list[i])

InitSimulationVars ==
    /\ sim_pc = "idle"
    /\ sim_cfg = [agents |-> <<>>, is_exam |-> FALSE, total_days |-> 0, n_slots |-> 0]
    /\ sim_day = 0
    /\ sim_slot = 0
    /\ sim_idx = 1
    /\ sim_calendar = 0
    /\ sim_passes = 0
    /\ sim_exams = 0
    /\ sim_taken = [a \in AgentNames |-> 0]
    /\ exam_scores = {}

\* start_simulation(agents_list, is_exam) up to the pre-simulation exam loop:
\* the registrations, the search for the expert and create_exam (which
\* catches every error of its LLM calls)
StartSimulation(agents_list, is_exam, total_days, n_slots) ==
    /\ sim_pc = "idle"
    /\ sim_cfg' = [agents |-> agents_list, is_exam |-> is_exam,
                   total_days |-> total_days, n_slots |-> n_slots]
    /\ sim_idx' = 1
    /\ IF is_exam /\ HasExpert(agents_list)
         THEN sim_exams' = sim_exams + 1 /\ sim_pc' = "pre_exam"
         ELSE UNCHANGED sim_exams /\ sim_pc' = "day"
    /\ UNCHANGED <<sim_day, sim_slot, sim_calendar, sim_passes, sim_taken, exam_scores>>
    /\ UNCHANGED notSimulation

\* one pass of an exam loop over self.agents (before or after the days): an
\* expert is skipped; any other agent takes the exam and is graded, and the
\* score is stored under '<name>_pre' or '<name>_post'.  raises: take_exam
\* (question['question'] of a question without that key) or grade_exam (the
\* sum over a score that is no number) raised; neither call is inside a try
TakeAndGradeExam(raises) ==
    /\ sim_pc \in {"pre_exam", "post_exam"}
    /\ LET agent_name == sim_cfg.agents[sim_idx]
           phase == IF sim_pc = "pre_exam" THEN "pre" ELSE "post"
           last == sim_idx = Len(sim_cfg.agents)
           after == IF sim_pc = "pre_exam" THEN "day" ELSE "finished"
       IN  IF IsExpert(agent_name)
             THEN /\ ~raises
                  /\ sim_pc' = IF last THEN after ELSE sim_pc
                  /\ sim_idx' = IF last THEN 1 ELSE sim_idx + 1
                  /\ UNCHANGED <<sim_taken, exam_scores>>
             ELSE /\ sim_taken' = [sim_taken EXCEPT ![agent_name] = @ + 1]
                  /\ IF raises
                       THEN sim_pc' = "raised" /\ UNCHANGED <<sim_idx, exam_scores>>
                       ELSE /\ exam_scores' = exam_scores \cup {<<agent_name, phase>>}
                            /\ sim_pc' = IF last THEN after ELSE sim_pc
                            /\ sim_idx' = IF last THEN 1 ELSE sim_idx + 1
    /\ UNCHANGED <<sim_cfg, sim_day, sim_slot, sim_calendar, sim_passes, sim_exams>>
    /\ UNCHANGED notSimulation

\* the head of the day loop: the next day begins with calendar.advance_day(),
\* or the loop is left for the post-simulation exam
DayStart ==
    /\ sim_pc = "day"
    /\ IF sim_day < sim_cfg.total_days
         THEN /\ sim_day' = sim_day + 1
              /\ sim_calendar' = sim_calendar + 1
              /\ sim_slot' = 1
              /\ sim_pc' = "agents"
         ELSE /\ sim_pc' = IF sim_cfg.is_exam /\ HasExpert(sim_cfg.agents)
                             THEN "post_exam" ELSE "finished"
              /\ UNCHANGED <<sim_day, sim_calendar, sim_slot>>
    /\ sim_idx' = 1
    /\ UNCHANGED <<sim_cfg, sim_passes, sim_exams, sim_taken, exam_scores>>
    /\ UNCHANGED notSimulation

\* one agent's step of a slot: create_daily_schedule, get_action_for_time_slot,
\* the move and generate_memory.  raises: the reads of the action's keys raised
\* (see ActForTimeSlot)
AgentStep(raises) ==
    /\ sim_pc = "agents"
    /\ IF raises
         THEN sim_pc' = "raised" /\ UNCHANGED sim_idx
         ELSE IF sim_idx = Len(sim_cfg.agents)
                THEN sim_pc' = "interactions" /\ sim_idx' = 1
                ELSE sim_pc' = "agents" /\ sim_idx' = sim_idx + 1
    /\ UNCHANGED <<sim_cfg, sim_day, sim_slot, sim_calendar, sim_passes, sim_exams,
                   sim_taken, exam_scores>>
    /\ UNCHANGED notSimulation

\* self.handle_interactions(time_slot).  raises: a pass over a location raised
\* (see HandleInteractions, StartDialogue, PostDialogueTeach), which takes the
\* expert and a student among the agents
InteractionsPass(raises) ==
    /\ sim_pc = "interactions"
    /\ raises => ExpertWithStudents(sim_cfg.agents)
    /\ IF raises
         THEN sim_pc' = "raised" /\ UNCHANGED sim_passes
         ELSE sim_pc' = "requests" /\ sim_passes' = sim_passes + 1
    /\ UNCHANGED <<sim_cfg, sim_day, sim_slot, sim_idx, sim_calendar, sim_exams,
                   sim_taken, exam_scores>>
    /\ UNCHANGED notSimulation

\* self.process_agent_requests() (a pass), then the next slot or the next day
ProcessAgentRequests ==
    /\ sim_pc = "requests"
    /\ IF sim_slot < sim_cfg.n_slots
         THEN sim_slot' = sim_slot + 1 /\ sim_pc' = "agents"
         ELSE UNCHANGED sim_slot /\ sim_pc' = "day"
    /\ UNCHANGED <<sim_cfg, sim_day, sim_idx, sim_calendar, sim_passes, sim_exams,
                   sim_taken, exam_scores>>
    /\ UNCHANGED notSimulation

(***************************************************************************)
(* LongTermMemory.search_memories called without a query.                  *)
(***************************************************************************)
\* the largest number of records of the store
MaxRecentMemos == 3

\* the largest limit of a search
MaxRecentLimit == 2

\* the hours that pass between two looks at the clock, and how often they pass
TickHours == 100

MaxTicks == 2

\* age_in_hours < 24 and age_in_hours < 168
RecentHours == 24

WeekHours == 168

MemoryTypes == {"dialogue", "studying"}

\* memory_type = None
NoType == ""

\* the weights of the records, times 10 (1.0 of study_topic, 1.8 of take_exam)
Weights10 == {10, 18}

\* the weight of a result entry, times 100: the record's weight with the boost
\* of its age
BoostedWeight(memory, now) ==
    LET age_in_hours == now - memory.timestamp
    IN  IF age_in_hours < RecentHours THEN memory.weight * 12
        ELSE IF age_in_hours < WeekHours THEN memory.weight * 11
        ELSE memory.weight * 10

\* search_memories("", limit, memory_type): relevance_score is 0 for every
\* record, so the sort key (relevance_score, weight) orders by the boosted
\* weight alone
SearchMemories(memos_, now, limit, memory_type) ==
    LET passing == SelectSeq(memos_,
                     LAMBDA m : ~(memory_type # NoType /\ m.type # memory_type))
        results == [i \in 1..Len(passing) |->
                     [key |-> BoostedWeight(passing[i], now), memory |-> passing[i]]]
        top == Take(SortDesc(results), limit)
    IN  [i \in 1..Len(top) |-> top[i].memory]

InitRecentVars ==
    /\ r_memos = <<>>
    /\ r_now = 0
    /\ r_call = [op |-> "none", limit |-> 0, memory_type |-> NoType, result |-> <<>>]

\* add_memory of a record that a behaviour has stamped with str(datetime.now())
AddStampedMemory(type, weight10) ==
    /\ Len(r_memos) < MaxRecentMemos
    /\ r_memos' = Append(r_memos, [id |-> Len(r_memos) + 1, type |-> type,
                                   timestamp |-> r_now, weight |-> weight10])
    /\ r_call' = [op |-> "add_memory", limit |-> 0, memory_type |-> NoType,
                  result |-> <<>>]
    /\ UNCHANGED r_now
    /\ UNCHANGED notRecent

\* time passes
Tick ==
    /\ r_now < MaxTicks * TickHours
    /\ r_now' = r_now + TickHours
    /\ r_call' = [op |-> "none", limit |-> 0, memory_type |-> NoType, result |-> <<>>]
    /\ UNCHANGED r_memos
    /\ UNCHANGED notRecent

SearchWithoutQuery(limit, memory_type) ==
    /\ r_call' = [op |-> "search_memories", limit |-> limit, memory_type |-> memory_type,
                  result |-> SearchMemories(r_memos, r_now, limit, memory_type)]
    /\ UNCHANGED <<r_memos, r_now>>
    /\ UNCHANGED notRecent

(***************************************************************************)
(* LongTermMemory and its JSONL file: _load_memories, save_memories,       *)
(* add_memory and update_memory_weight.                                    *)
(***************************************************************************)
\* the largest number of records of the store and of lines of the file
MaxPersistMemos == 3

PersistIds == {"m1"}

PersistWeights == {"1.0", "1.2"}

PersistRecords == [id : PersistIds \cup {NoId}, weight : PersistWeights]

\* json.dumps(memory, ensure_ascii=False): one line of JSON text
Dumps(memory) == <<"{", memory.id, memory.weight, "}">>

\* whether json.loads(line) returns (it raises JSONDecodeError on a line that
\* is no complete JSON text)
Decodes(line) == Len(line) = 4 /\ line[1] = "{" /\ line[4] = "}"

\* json.loads(line) of a line that decodes
Loads(line) == [id |-> line[2], weight |-> line[3]]

\* save_memories(): the file is rewritten, one line per record of self.memos
SaveMemories(memos_) == [i \in 1..Len(memos_) |-> Dumps(memos_[i])]

RECURSIVE LoadMemoriesAbort(_)
\* a load that gives up at the first line that fails to decode
LoadMemoriesAbort(lines) ==
    IF lines = <<>> \/ (lines[1] # <<>> /\ ~Decodes(lines[1])) THEN <<>>
    ELSE IF lines[1] = <<>> THEN LoadMemoriesAbort(Tail(lines))
    ELSE <<Loads(lines[1])>> \o LoadMemoriesAbort(Tail(lines))

RECURSIVE LoadMemories(_)
\* _load_memories(): an empty line is passed over, a line that raises
\* JSONDecodeError is skipped ('continue'), every other line is appended
LoadMemories(lines) ==
    IF lines = <<>> THEN <<>>
    ELSE IF lines[1] = <<>> \/ ~Decodes(lines[1]) THEN LoadMemories(Tail(lines))
    ELSE <<Loads(lines[1])>> \o LoadMemories(Tail(lines))

\* the first index of memos_ whose record has the id, or 0
FirstWithId(memos_, id) ==
    LET idx == {i \in 1..Len(memos_) : memos_[i].id = id}
    IN  IF id # NoId /\ idx # {} THEN CHOOSE i \in idx : \A j \in idx : i <= j ELSE 0

\* a store whose file did not exist: the file is created empty
InitPersistVars ==
    /\ p_memos = <<>>
    /\ p_file = <<>>
    /\ p_call = [op |-> "none", found |-> FALSE, skipped |-> 0]

\* add_memory(memory): the update in place or the append, then save_memories()
PersistAddMemory(memory) ==
    /\ LET i == FirstWithId(p_memos, memory.id)
       IN  IF i # 0
             THEN p_memos' = [p_memos EXCEPT ![i] = memory]
             ELSE /\ Len(p_memos) < MaxPersistMemos
                  /\ p_memos' = Append(p_memos, memory)
    /\ p_file' = SaveMemories(p_memos')
    /\ p_call' = [p_call EXCEPT !.op = "add_memory", !.found = FALSE]
    /\ UNCHANGED notPersist

\* update_memory_weight(memory_id, new_weight): the first record with the id
\* gets the weight and the file is saved; without such a record nothing is done
UpdateMemoryWeight(memory_id, new_weight) ==
    /\ LET i == FirstWithId(p_memos, memory_id)
       IN  IF i # 0
             THEN /\ p_memos' = [p_memos EXCEPT ![i].weight = new_weight]
                  /\ p_file' = SaveMemories(p_memos')
                  /\ p_call' = [p_call EXCEPT !.op = "update_memory_weight", !.found = TRUE]
             ELSE /\ UNCHANGED <<p_memos, p_file>>
                  /\ p_call' = [p_call EXCEPT !.op = "update_memory_weight", !.found = FALSE]
    /\ UNCHANGED notPersist

\* the file is damaged from outside between two runs: line i is cut (a write
\* that was interrupted) or emptied
DamageLine(i, kept) ==
    /\ p_call.op # "damage"
    /\ i \in 1..Len(p_file)
    /\ Decodes(p_file[i])
    /\ p_file' = [p_file EXCEPT ![i] = SubSeq(@, 1, kept)]
    /\ p_call' = [p_call EXCEPT !.op = "damage", !.found = FALSE]
    /\ UNCHANGED p_memos
    /\ UNCHANGED notPersist

\* LongTermMemory(memory_file_path) on the file as it is: __init__ and
\* _load_memories
OpenStore ==
    /\ p_memos' = LoadMemories(p_file)
    /\ p_call' = [op |-> "load", found |-> FALSE,
                  skipped |-> Cardinality({i \in 1..Len(p_file) :
                                             p_file[i] # <<>> /\ ~Decodes(p_file[i])})]
    /\ UNCHANGED p_file
    /\ UNCHANGED notPersist

(***************************************************************************)
(* evaluator.evaluate_speaker_in_dialogue: the retry loop.                 *)
(***************************************************************************)
\* the largest retry_times argument (the default is 3)
MaxRetryTimes == 3

\* the base_sleep arguments, in tenths of a second (the default is 0.5 s)
BaseSleeps == {5, 10}

\* what one Generation.call gives: a status code that is not 200, an empty
\* text, a text that json.loads rejects, an evaluation without one of the
\* dimensions, one with a score outside [0, 10], one with an empty comment, one
\* whose comment is no string (validate_evaluation raises AttributeError), an
\* exception of the call itself, or a valid evaluation
EvalOutcomes == {"non_200", "empty", "bad_json", "missing_key", "bad_score",
                 "empty_comment", "comment_not_str", "raises", "valid"}

\* validate_evaluation(eval_res), for the outcomes that reach it
ValidateEvaluation(outcome) == outcome = "valid"

\* the status of the result returned for a failed last attempt
FailureStatus(outcome) ==
    CASE outcome = "non_200" -> "api_error"
      [] outcome = "empty" -> "empty_output"
      [] outcome \in {"missing_key", "bad_score", "empty_comment"} -> "validation_failed"
      [] OTHER -> "dashscope_or_unknown_error"

\* a backoff that does not grow
SleepConstant(base_sleep, retry) == base_sleep

\* base_sleep * (2 ** retry)
SleepFor(base_sleep, retry) == base_sleep * 2^retry

InitEvaluatorVars ==
    /\ e_pc = "idle"
    /\ e_args = [retry_times |-> 0, base_sleep |-> 0]
    /\ e_retry = 0
    /\ e_log = <<>>
    /\ e_sleeps = <<>>
    /\ e_ret = [status |-> "none", score |-> 0]

\* evaluate_speaker_in_dialogue(prompt, model, retry_times, base_sleep) up to
\* the first attempt; with retry_times = 0 the loop is empty and the default
\* error is returned
EvaluateSpeakerInDialogue(retry_times, base_sleep) ==
    /\ e_pc \in {"idle", "returned"}
    /\ e_args' = [retry_times |-> retry_times, base_sleep |-> base_sleep]
    /\ e_retry' = 0
    /\ e_log' = <<>>
    /\ e_sleeps' = <<>>
    /\ IF retry_times = 0
         THEN e_pc' = "returned" /\ e_ret' = [status |-> "all_retries_failed", score |-> -1]
         ELSE e_pc' = "calling" /\ e_ret' = [status |-> "none", score |-> 0]
    /\ UNCHANGED notEvaluator

\* one pass of the loop body: the call, the checks of its result, and either
\* the return or the sleep before the next pass
EvaluationAttempt(outcome) ==
    /\ e_pc = "calling"
    /\ e_log' = Append(e_log, outcome)
    /\ IF outcome \notin {"non_200", "empty", "bad_json", "comment_not_str", "raises"}
          /\ ValidateEvaluation(outcome)
         THEN /\ e_pc' = "returned"
              /\ e_ret' = [status |-> "success", score |-> 10]
              /\ UNCHANGED <<e_retry, e_sleeps>>
         ELSE IF e_retry < e_args.retry_times - 1
                THEN /\ e_sleeps' = Append(e_sleeps, SleepFor(e_args.base_sleep, e_retry))
                     /\ e_retry' = e_retry + 1
                     /\ UNCHANGED <<e_pc, e_ret>>
                ELSE /\ e_pc' = "returned"
                     /\ e_ret' = [status |-> FailureStatus(outcome), score |-> -1]
                     /\ UNCHANGED <<e_retry, e_sleeps>>
    /\ UNCHANGED e_args
    /\ UNCHANGED notEvaluator

(***************************************************************************)
(* KnowledgeBaseManager: load_knowledge_from_jsonl and get_all_topics.     *)
(***************************************************************************)
\* the largest number of entries of a knowledge file
MaxKnowledge == 2

\* what the "topic" field of an entry may hold: nothing (the key is absent),
\* the empty string, a topic, or the topic with blanks around it
TopicFields == {Absent, "", "sorting", " sorting "}

\* what the "name" and the "title" field may hold
NameFields == {Absent, "Quicksort"}

\* the entries of a knowledge file: JSON objects that also have a "content"
\* field with text
KnowledgeItems == [topic : TopicFields, name : NameFields, title : NameFields]

\* the truth value of a field: an absent key gives None, which is false like ""
Truthy(field) == field \notin {Absent, ""}

\* next(iter(knowledge_item.keys()), "通用"): the first key of the object
FirstKey(item) ==
    IF item.topic # Absent THEN "topic"
    ELSE IF item.name # Absent THEN "name"
    ELSE IF item.title # Absent THEN "title"
    ELSE "content"

\* topic.strip().split('\n')[0]
StripFirstLine(text) == IF text = " sorting " THEN "sorting" ELSE text

\* the metadata topic under which load_knowledge_from_jsonl indexes an entry
IndexedTopic(item) ==
    LET topic == IF Truthy(item.topic) THEN item.topic
                 ELSE IF Truthy(item.name) THEN item.name
                 ELSE IF Truthy(item.title) THEN item.title
                 ELSE FirstKey(item)
    IN  StripFirstLine(topic)

\* item.get("topic", "通用") of get_all_topics
StoredTopic(item) == IF item.topic = Absent THEN GenericTopic ELSE item.topic

\* get_all_topics(): the set of the stored entries' "topic" fields
GetAllTopics(store) == {StoredTopic(store[i]) : i \in 1..Len(store)}

InitKnowledgeVars ==
    /\ knowledge_store = <<>>
    /\ k_index = {}
    /\ k_call = [op |-> "none", result |-> {}]

\* one line of load_knowledge_from_jsonl.  add_raises: add_documents raised
\* (the embedding call failed); the error is caught and the entry is neither
\* indexed nor stored
LoadKnowledgeLine(item, add_raises) ==
    /\ Len(knowledge_store) < MaxKnowledge
    /\ IF add_raises
         THEN UNCHANGED <<knowledge_store, k_index>>
         ELSE /\ knowledge_store' = Append(knowledge_store, item)
              /\ k_index' = k_index \cup {IndexedTopic(item)}
    /\ k_call' = [op |-> "load_knowledge_from_jsonl", result |-> {}]
    /\ UNCHANGED notKnowledge

GetAllTopicsCall ==
    /\ k_call' = [op |-> "get_all_topics", result |-> GetAllTopics(knowledge_store)]
    /\ UNCHANGED <<knowledge_store, k_index>>
    /\ UNCHANGED notKnowledge

(***************************************************************************)
(* The specifications.                                                     *)
(***************************************************************************)
InitAll == InitWorldVars /\ InitMemoryVars /\ InitDialogueVars /\ InitStructuredVars
           /\ InitExamVars /\ InitCurriculumVars /\ InitScheduleVars
           /\ InitInteractionVars /\ InitBehaviourVars /\ InitTopicVars
           /\ InitCreateExamVars /\ InitSimulationVars /\ InitRecentVars
           /\ InitPersistVars
           /\ InitEvaluatorVars
           /\ InitKnowledgeVars

NextWorld ==
    \/ \E a \in AgentNames : RegisterAgent(a)
    \/ \E a \in AgentNames, l \in AnyLocation : MoveAgent(a, l)
    \/ \E a \in AgentNames, l \in AnyLocation : ScheduleAndMove(a, l)

SpecWorld == InitAll /\ [][NextWorld]_vars

NextMemory == \E memory \in MemoryRecords : AddMemory(memory)

SpecMemory == InitAll /\ [][NextMemory]_vars

NextDialogue ==
    \/ /\ d_pc = "idle"
       /\ \E self \in AgentNames :
            \E participants \in UNION {Orderings(S) : S \in SUBSET (AgentNames \ {self})} :
              \E max_rounds \in 0..MaxRounds : InitiateDialogue(self, participants, max_rounds)
    \/ RoundStart
    \/ \E reply \in ContinueReplies : Admit(reply)
    \/ AdmitDone
    \/ ParticipantTurn
    \/ InitiatorTurn
    \/ ReturnDialogue

SpecDialogue == InitAll /\ [][NextDialogue]_vars

NextStructured ==
    \/ /\ s_pc = "idle"
       /\ \E n \in 0..MaxParticipantsSD, max_rounds \in 0..MaxRoundsSD, topic_closing \in BOOLEAN :
            \E kb_hit \in BOOLEAN, reply \in SDReplies :
              RunStructuredDialogue(n, max_rounds, topic_closing, kb_hit, reply)
    \/ SDRoundStart
    \/ \E reply \in SDReplies : SDTurn(reply)
    \/ SDRoundCheck

SpecStructured == InitAll /\ [][NextStructured]_vars

\* the call runs on one thread and every LLM call returns or raises: a step
\* that can be taken is taken
FairSpecStructured == SpecStructured /\ WF_vars(NextStructured)

NextExam ==
    \/ \E n_answers \in 0..MaxQuestions, n_questions \in 0..MaxQuestions :
         GradeExam(n_answers, n_questions)
    \/ \E reply \in GradeReplies : GradeQuestion(reply)
    \/ GradeFinish

SpecExam == InitAll /\ [][NextExam]_vars

NextCurriculum ==
    \/ \E n \in 0..MaxTopics : GenerateCurriculum(n)
    \/ \E student_name \in StudentNames : GetNextTeachingTopic(student_name)

SpecCurriculum == InitAll /\ [][NextCurriculum]_vars

NextTeach ==
    \/ NextCurriculum
    \/ \E all_students \in StudentLists : GroupTeach(all_students)

SpecTeach == InitAll /\ [][NextTeach]_vars

NextSchedule ==
    \/ InvokeLLMForSchedule
    \/ \E token \in ReplyTokens : ScheduleReplyToken(token)
    \/ \E raises \in BOOLEAN : CreateDailySchedule(raises)
    \/ \E time_slot \in TimeSlots, location \in MapLocations \cup {None} :
         ActForTimeSlot(time_slot, location)

SpecSchedule == InitAll /\ [][NextSchedule]_vars

NextInteractions ==
    \/ /\ h_pc = "idle"
       /\ \E agent_names \in CoLocated, base_agents \in BOOLEAN,
             is_social_location \in BOOLEAN, draw \in Draws, teach_draw \in Draws :
            HandleInteractions(agent_names, base_agents, is_social_location, draw, teach_draw)
    \/ \E joins \in BOOLEAN : JoinDecision(joins)
    \/ \E max_rounds \in 0..MaxDialogueRounds, outcome \in DialogueOutcomes :
         StartDialogue(max_rounds, outcome)
    \/ /\ h_pc = "idle"
       /\ \E self \in AgentNames :
            \E participants \in UNION {Orderings(S) : S \in SUBSET (AgentNames \ {self})},
               max_rounds \in 0..MaxDialogueRounds, outcome \in DialogueOutcomes :
              InitiateDialogueDirectly(self, participants, max_rounds, outcome)
    \/ RecordFailedDialogue
    \/ \E reply \in TeachReplies, long_content \in BOOLEAN : PostDialogueTeach(reply, long_content)

SpecInteractions == InitAll /\ [][NextInteractions]_vars

NextBehaviours ==
    \E behaviour \in Behaviours, llm_raises \in BOOLEAN, teacher_raises \in BOOLEAN :
      Behave(behaviour, llm_raises, teacher_raises)

SpecBehaviours == InitAll /\ [][NextBehaviours]_vars

NextTopicSearch ==
    \/ \E content \in BOOLEAN, strings \in 0..1, items \in 0..2 :
         AddTopicMemory(content, strings, items)
    \/ \E limit \in 0..MaxLimit : SearchByTopic(limit)

SpecTopicSearch == InitAll /\ [][NextTopicSearch]_vars

NextCreateExam ==
    \/ \E n \in 0..MaxTopics : GenerateCurriculum(n)
    \/ \E num_questions \in 1..MaxExamQuestions : CreateExam(num_questions)
    \/ \E reply \in ExamReplies : ExamQuestion(reply)

SpecCreateExam == InitAll /\ [][NextCreateExam]_vars

NextSimulation ==
    \/ /\ sim_pc = "idle"
       /\ \E agents_list \in UNION {Orderings(S) : S \in SUBSET AgentNames \ {{}}} :
            \E is_exam \in BOOLEAN, total_days \in 0..MaxDays, n_slots \in 1..MaxSlots :
              StartSimulation(agents_list, is_exam, total_days, n_slots)
    \/ \E raises \in BOOLEAN : TakeAndGradeExam(raises)
    \/ DayStart
    \/ \E raises \in BOOLEAN : AgentStep(raises)
    \/ \E raises \in BOOLEAN : InteractionsPass(raises)
    \/ ProcessAgentRequests

SpecSimulation == InitAll /\ [][NextSimulation]_vars

NextRecent ==
    \/ \E type \in MemoryTypes, weight10 \in Weights10 : AddStampedMemory(type, weight10)
    \/ Tick
    \/ \E limit \in 1..MaxRecentLimit, memory_type \in {NoType} \cup MemoryTypes :
         SearchWithoutQuery(limit, memory_type)

SpecRecent == InitAll /\ [][NextRecent]_vars

NextPersist ==
    \/ \E memory \in PersistRecords : PersistAddMemory(memory)
    \/ \E memory_id \in PersistIds, new_weight \in PersistWeights :
         UpdateMemoryWeight(memory_id, new_weight)
    \/ \E i \in 1..MaxPersistMemos, kept \in {0, 2} : DamageLine(i, kept)
    \/ OpenStore

SpecPersist == InitAll /\ [][NextPersist]_vars

NextEvaluator ==
    \/ \E retry_times \in 0..MaxRetryTimes, base_sleep \in BaseSleeps :
         EvaluateSpeakerInDialogue(retry_times, base_sleep)
    \/ \E outcome \in EvalOutcomes : EvaluationAttempt(outcome)

SpecEvaluator == InitAll /\ [][NextEvaluator]_vars

NextKnowledge ==
    \/ \E item \in KnowledgeItems, add_raises \in BOOLEAN : LoadKnowledgeLine(item, add_raises)
    \/ GetAllTopicsCall

SpecKnowledge == InitAll /\ [][NextKnowledge]_vars

Init == InitAll

Next == NextWorld \/ NextMemory \/ NextDialogue \/ NextStructured
        \/ NextExam \/ NextTeach \/ NextSchedule \/ NextInteractions
        \/ NextBehaviours \/ NextTopicSearch \/ NextCreateExam
        \/ NextSimulation
        \/ NextRecent
        \/ NextPersist
        \/ NextEvaluator
        \/ NextKnowledge

Spec == Init /\ [][Next]_vars

(***************************************************************************)
(* Claims about the map.                                                   *)
(***************************************************************************)
\* the number of times agent a is listed, over all locations of the map
RECURSIVE ListedFrom(_, _)
ListedFrom(a, i) ==
    IF i > Len(MapLocationList) THEN 0
    ELSE Count(mapAgents[MapLocationList[i]], a) + ListedFrom(a, i + 1)

Listed(a) == ListedFrom(a, 1)

\* C1: after any sequence of register_agent calls (each agent once) and
\* move_agent calls with arbitrary names and targets, every agent name is in
\* the 'agents' list of at most one location, and at most once in that list.
C1_AtMostOneLocation == \A a \in AgentNames : Listed(a) <= 1

\* C1's case: a registered agent was moved from the default location to
\* another one, where it is listed next to an agent that moved there before
C1_Witness ==
    /\ w_call.op = "move_agent" /\ w_call.ret
    /\ w_call.location # MapLocationList[1]
    /\ Len(mapAgents[w_call.location]) >= 2
    /\ Contains(mapAgents[w_call.location], w_call.agent)

\* C2: move_agent(name, location) with a location that is no key of the map
\* returns False and is a no-op: every location's agent list and the agent's
\* current_location are the same after the call as before it.
C2_UnknownTargetIsNoOp ==
    [][(w_call'.op = "move_agent" /\ w_call'.location \notin MapLocations)
          => /\ w_call'.ret = FALSE
             /\ mapAgents' = mapAgents
             /\ current_location' = current_location]_vars

\* C3: each registered agent is in exactly one location's agent list, and that
\* location is the one in the agent's current_location field.
C3_ExactlyOneLocation ==
    \A a \in SeqToSet(agents) :
        /\ Listed(a) = 1
        /\ current_location[a] \in MapLocations
        /\ Contains(mapAgents[current_location[a]], a)

(***************************************************************************)
(* Claims about the memory store.                                          *)
(***************************************************************************)
\* C4: starting from an empty store, after any sequence of add_memory calls
\* with records that carry an 'id', the store holds exactly one record per
\* distinct id, that record is the payload of the last add_memory call with
\* that id, and an insert with an existing id leaves the number of records
\* unchanged.
C4_Upsert ==
    /\ \A id \in MemIds :
         IF m_last[id] = None
           THEN IndexesOf(id) = {}
           ELSE /\ Cardinality(IndexesOf(id)) = 1
                /\ \A i \in IndexesOf(id) : memos[i].payload = m_last[id]
    /\ (m_call.op = "add_memory" /\ m_call.existed) => Len(memos) = m_call.prevLen

\* C4's case: a record that is not the last of the list was just replaced by a
\* second insert with its id
C4_Witness ==
    /\ m_call.op = "add_memory" /\ m_call.existed
    /\ Len(memos) >= 2
    /\ \E i \in 1..(Len(memos) - 1) :
         memos[i].id = m_call.id /\ memos[i].payload = m_call.payload

(***************************************************************************)
(* Claims about BaseAgent.initiate_dialogue.                               *)
(***************************************************************************)
\* C5: the set of participating agents (available_participants) is
\* non-increasing from one round to the next, so an agent that declined in
\* some round is never a participant of a later round of the same dialogue.
C5_ParticipantsShrink ==
    [][d_pc # "idle" => SeqToSet(d_available') \subseteq SeqToSet(d_available)]_vars

\* C5's case: an agent declined in an earlier round, and a later round has been
\* admitted and is generating its turns without it
C5_Witness ==
    /\ d_pc = "turns"
    /\ \E a \in AgentNames :
         /\ d_declined[a] # -1 /\ d_declined[a] < d_round
         /\ ~Contains(d_available, a)
    /\ Len(d_available) >= 2

\* C6: an agent that declines continuation in round r is the speaker of no
\* turn appended to the transcript in round r or any later round; this holds
\* for every participant, including the initiating agent.
C6_DroppedNeverSpeaks ==
    \A i \in 1..Len(d_history) :
        LET turn == d_history[i]
        IN  d_declined[turn.speaker] = -1 \/ turn.round < d_declined[turn.speaker]

\* C8: for every max_rounds and every number of participants, the transcript
\* that initiate_dialogue returns has at most 20 turns.
C8_AtMostTwentyTurns == d_pc = "returned" => Len(d_history) <= 20

(***************************************************************************)
(* Claims about DialogueManager.run_structured_dialogue.                   *)
(***************************************************************************)
\* C7: run_structured_dialogue terminates for every max_rounds, every number
\* of participants and every sequence of LLM replies (empty replies, replies
\* without a closing keyword, raised exceptions): every call returns, unless
\* it has raised while preparing the context; and the transcript it returns
\* never has more than 20 turns.
C7_TerminatesWithinTwentyTurns ==
    /\ [](Len(s_history) <= 20)
    /\ <>(s_pc \in {"returned", "raised"})

\* C7's case: a run that was ended by the 20-turn check, none of its last
\* three turns holding a closing keyword
C7_Witness ==
    /\ s_pc = "returned"
    /\ Len(s_history) = 20
    /\ \A i \in 18..20 : s_history[i].message # "closing"

(***************************************************************************)
(* Claims about ExpertAgent.grade_exam.                                    *)
(***************************************************************************)
\* C9: for every list of answers and questions and every outcome of each
\* grading call (a JSON reply with any 'score', a reply without JSON, an
\* exception), grade_exam returns a total_score with 0 <= total_score <= 100,
\* every entry of grading_results has a score in [0,10], and a failed grading
\* call gives its question the score 5.
C9_ScoresInRange ==
    /\ g_pc # "raised"
    /\ \A i \in 1..Len(g_results) :
         /\ g_results[i].numeric
         /\ 0 <= g_results[i].score /\ g_results[i].score <= 10
         /\ g_results[i].failed => g_results[i].score = 5
    /\ g_pc = "returned" => (0 <= g_ret.num /\ g_ret.num <= 100 * g_ret.den)

(***************************************************************************)
(* Claims about the curriculum cursor.                                     *)
(***************************************************************************)
\* C10 as stated: with N > 1 topics, the (N+1)-th successive call for a
\* student returns the topic at index 1 of the sequence, not the one at 0.
C10_WrapReturnsIndexOne ==
    \A st \in StudentNames :
        (Len(curriculum_sequence) > 1 /\ c_calls[st] = Len(curriculum_sequence) + 1)
            => c_topic[st] = curriculum_sequence[2]

\* C10 as amended: with N > 1 topics, the (N+1)-th successive call for a
\* student returns the topic at index 0 and leaves the cursor at 1; it is the
\* (N+2)-th call that returns the topic at index 1.
C10_WrapReturnsIndexZero ==
    \A st \in StudentNames :
        Len(curriculum_sequence) > 1 =>
            /\ c_calls[st] = Len(curriculum_sequence) + 1
                 => (c_topic[st] = curriculum_sequence[1] /\ teaching_progress[st] = 1)
            /\ c_calls[st] = Len(curriculum_sequence) + 2
                 => c_topic[st] = curriculum_sequence[2]

\* C10's case: a student's (N+1)-th call on a curriculum of N > 1 topics
C10_Witness ==
    \E st \in StudentNames :
        /\ Len(curriculum_sequence) > 1
        /\ c_calls[st] = Len(curriculum_sequence) + 1

\* the spans that are a JSON object: the empty object or braces around one member list
JsonObjects == {<<"{", "}">>} \cup {<<"{", body, "}">> : body \in BodyTokens}

\* the reply of the last create_daily_schedule call leads to a fallback: the LLM
\* call raised, the text has no '{' or no '}', or the span is no JSON object
ScheduleFallbackCase ==
    /\ sch_call.op = "create_daily_schedule"
    /\ \/ sch_call.raises
       \/ ~(\E i \in 1..Len(sch_call.text) : sch_call.text[i] = "{")
       \/ ~(\E i \in 1..Len(sch_call.text) : sch_call.text[i] = "}")
       \/ JsonSpan(sch_call.text) \notin JsonObjects

\* C11: when the LLM call of create_daily_schedule raises, or its reply holds no
\* '{'...'}' span, or the span is not valid JSON, the call returns and stores
\* exactly the default schedule of five slots, and no error reaches the caller
C11_FallbackIsDefaultSchedule ==
    ScheduleFallbackCase =>
      /\ sch_call.ret = DefaultSchedule
      /\ current_schedule = DefaultSchedule
      /\ ~sch_call.error
      /\ \A slot \in TimeSlots : DefaultSchedule[slot].kind = "dict"

\* a reply whose span from the first '{' to the last '}' is not JSON was
\* answered with the default schedule
C11_Witness ==
    /\ sch_call.op = "create_daily_schedule"
    /\ ~sch_call.raises
    /\ sch_call.text = <<"{", "text", "}">>
    /\ current_schedule = DefaultSchedule

\* C12: when the interaction draw succeeds at a location with k >= 2 agents
\* but fewer than 2 of them join, each of the k agents gets exactly one new
\* 'failed_dialogue' memory of weight 0.8 and nothing else happens: no log file,
\* no 'dialogue' memory, no teach
C12_FailedDialogueRecorded ==
    h_branch = "failed_dialogue" =>
      /\ h_pc = "done"
      /\ Len(h_agent_names) >= 2 /\ Len(h_participating) < 2
      /\ \A a \in AgentNames :
            h_new[a] = IF Contains(h_agent_names, a)
                         THEN <<Memory("failed_dialogue", 8)>>
                         ELSE <<>>
      /\ h_logs = 0
      /\ h_teach = 0

\* three agents stood together, one joined, and the failure was recorded
C12_Witness ==
    /\ h_branch = "failed_dialogue"
    /\ Len(h_agent_names) = 3
    /\ Len(h_participating) = 1
    /\ \A a \in AgentNames : Len(NewOfType(a, "failed_dialogue")) = 1

\* C13: whatever the LLM replies and the random draws are, the pass of
\* handle_interactions over a location (the post-dialogue and the spontaneous
\* teach steps included) completes without an uncaught error
C13_InteractionsNeverRaise == h_pc # "raised"

\* C14: when the LLM call of teach, answer_question, ask_question, study_topic
\* or ask_teacher_for_help raises, the behaviour makes no second LLM call,
\* returns a usable degraded result, and still appends a memory record for the
\* action to the acting agent's store
C14_FallbackStillWritesMemory ==
    (b_call.op \in Behaviours /\ b_call.llm_raises) =>
      /\ b_call.llm_calls = 1
      /\ b_call.ret = "degraded"
      /\ b_call.added >= 1

\* C15: _should_continue_dialogue always yields a decision whose should_join
\* the admission loop of initiate_dialogue can read: after a reply without a
\* JSON object the agent is kept exactly when the transcript is not empty,
\* after a raise (of the LLM call or of the JSON decoding) it is dropped, and
\* in both cases the round goes on
C15_FallbackDecisionIsRead ==
    [][\A reply \in {"no_json", "bad_json", "raise"} :
         Admit(reply) =>
           /\ d_pc' = "admit"
           /\ d_idx' = d_idx + 1
           /\ d_temp' = IF reply = "no_json" /\ Len(d_history) > 0
                          THEN Append(d_temp, d_available[d_idx])
                          ELSE d_temp]_vars

\* the position of the record in the result of the last search, or 0
PositionInResult(memory) ==
    IF \E i \in 1..Len(t_call.result) : t_call.result[i] = memory
      THEN CHOOSE i \in 1..Len(t_call.result) : t_call.result[i] = memory
      ELSE 0

\* C16: get_memories_by_topic returns a record whose content contains the topic
\* before a record that contains it only in one item of a list nested in its
\* details, whatever the order of their insertion, and returns at most 'limit'
\* records, all with a positive topic score
C16_DirectBeforeNestedList ==
    t_call.op = "get_memories_by_topic" =>
      /\ Len(t_call.result) <= t_call.limit
      /\ \A i \in 1..Len(t_call.result) : TopicRelevance2(t_call.result[i]) > 0
      /\ \A i, j \in 1..Len(t_memos) :
            LET direct == t_memos[i]
                nested == t_memos[j]
            IN  (/\ direct.content
                 /\ ~nested.content /\ nested.strings = 0 /\ nested.items = 1
                 /\ PositionInResult(nested) # 0)
                => /\ PositionInResult(direct) # 0
                   /\ PositionInResult(direct) < PositionInResult(nested)

\* the nested-list record was inserted first and both records were returned
C16_Witness ==
    /\ t_call.op = "get_memories_by_topic"
    /\ Len(t_memos) >= 2
    /\ ~t_memos[1].content /\ t_memos[1].strings = 0 /\ t_memos[1].items = 1
    /\ t_memos[2].content
    /\ PositionInResult(t_memos[1]) = 2
    /\ PositionInResult(t_memos[2]) = 1

\* C17: for a knowledge base with k >= 1 topics and num_questions n >= 1,
\* create_exam returns exactly n questions, one per selected topic, the selected
\* topics cycling through the k topics, and every question's topic is one of
\* the k topics; a failed LLM call replaces only its own question by the
\* generic question for its topic; with no topics the result is the empty list
C17_ExamQuestionsPerTopic ==
    x_pc = "returned" =>
      IF curriculum_sequence = <<>>
        THEN x_questions = <<>>
        ELSE /\ Len(x_questions) = x_num_questions
             /\ \A i \in 1..Len(x_questions) :
                   /\ x_questions[i].asked
                        = curriculum_sequence[((i - 1) % Len(curriculum_sequence)) + 1]
                   /\ x_questions[i].topic \in SeqToSet(curriculum_sequence)
                   /\ x_questions[i].fallback => x_questions[i].topic = x_questions[i].asked

\* start_simulation has ended, by its return or by an uncaught error
SimulationEnded == sim_pc \in {"finished", "raised"}

\* the order of the day loop: one calendar tick per day, before its first slot;
\* the slots of a day in list order, each with the agents' steps before the
\* one handle_interactions pass and that before process_agent_requests
SimulationOrdering ==
    /\ [](sim_calendar = sim_day)
    /\ [](sim_pc \in {"agents", "interactions"}
            => sim_passes = (sim_day - 1) * sim_cfg.n_slots + (sim_slot - 1))
    /\ [](sim_pc = "requests"
            => sim_passes = (sim_day - 1) * sim_cfg.n_slots + sim_slot)
    /\ [][/\ sim_day' >= sim_day
          /\ (sim_day' = sim_day => sim_slot' >= sim_slot)]_vars

\* C18: start_simulation follows the documented state machine and ends having
\* run exactly total_days days: the calendar is advanced exactly once per day,
\* before the day's first slot; every time slot of every day is processed
\* once, in list order, the agents' steps before the one handle_interactions
\* pass and that before process_agent_requests; day and slot never go
\* backwards
C18_RunsEveryDayAndSlot ==
    /\ SimulationOrdering
    /\ [](SimulationEnded
            => /\ sim_day = sim_cfg.total_days
               /\ sim_passes = sim_cfg.total_days * sim_cfg.n_slots)

\* the exam flag is on and an expert is among the agents of the started run
ExamCase == sim_pc # "idle" /\ sim_cfg.is_exam /\ HasExpert(sim_cfg.agents)

\* C19: with the exam flag on and an expert among the agents the exam is
\* generated once, every non-expert agent has its '<name>_pre' score before
\* the first day tick and its '<name>_post' score when the simulation has
\* ended, having taken the exam once before and once after the days; the
\* expert never takes the exam; with the flag off no exam is created, taken
\* or graded and exam_scores stays empty
C19_ExamBeforeAndAfter ==
    /\ ExamCase =>
          /\ sim_exams = 1
          /\ sim_taken["Sensei"] = 0
          /\ sim_day >= 1 =>
                \A a \in Students(sim_cfg.agents) : <<a, "pre">> \in exam_scores
          /\ sim_day < sim_cfg.total_days =>
                \A a \in Students(sim_cfg.agents) : <<a, "post">> \notin exam_scores
          /\ SimulationEnded =>
                \A a \in Students(sim_cfg.agents) :
                    /\ <<a, "pre">> \in exam_scores
                    /\ <<a, "post">> \in exam_scores
                    /\ sim_taken[a] = 2
    /\ (sim_pc # "idle" /\ ~sim_cfg.is_exam) =>
          /\ sim_exams = 0
          /\ \A a \in AgentNames : sim_taken[a] = 0
          /\ exam_scores = {}

\* the records of the store that pass the type filter of the last search
PassingRecords ==
    {i \in 1..Len(r_memos) :
        r_call.memory_type = NoType \/ r_memos[i].type = r_call.memory_type}

\* C20: search_memories with an empty query returns the most recent records:
\* min(limit, number of records passing the type filter) records that pass the
\* filter, ordered by timestamp descending, none of them older than a passing
\* record left out, whatever the weights are
C20_EmptyQueryMostRecent ==
    r_call.op = "search_memories" =>
      LET result == r_call.result
          n == Cardinality(PassingRecords)
      IN  /\ Len(result) = IF r_call.limit < n THEN r_call.limit ELSE n
          /\ \A k \in 1..Len(result) :
                \E i \in PassingRecords : r_memos[i] = result[k]
          /\ \A k \in 1..(Len(result) - 1) :
                result[k].timestamp >= result[k + 1].timestamp
          /\ \A k \in 1..Len(result) : \A i \in PassingRecords :
                (\A j \in 1..Len(result) : result[j] # r_memos[i])
                    => r_memos[i].timestamp <= result[k].timestamp

(***************************************************************************)
(* Claims about the store and its file.                                    *)
(***************************************************************************)
\* the lines of the file that hold a complete record
GoodLines == {i \in 1..Len(p_file) :
                Len(p_file[i]) = 4 /\ p_file[i][1] = "{" /\ p_file[i][4] = "}"}

\* the line of the file that holds the k-th complete record
GoodLine(k) == CHOOSE i \in GoodLines : Cardinality({j \in GoodLines : j < i}) = k - 1

\* the store holds the complete records of the file, in file order
StoreIsFile ==
    /\ Len(p_memos) = Cardinality(GoodLines)
    /\ \A k \in 1..Len(p_memos) :
          /\ p_file[GoodLine(k)][2] = p_memos[k].id
          /\ p_file[GoodLine(k)][3] = p_memos[k].weight

\* C21: after every add_memory, and every update_memory_weight that finds its
\* id, the file has one line per record of the store and decodes line by line
\* to exactly the store's records in the same order; a store opened on a file
\* holds the records of all lines that decode, in file order, whatever lines
\* fail to decode
C21_PersistedBeforeReturn ==
    /\ (p_call.op = "add_memory" \/ (p_call.op = "update_memory_weight" /\ p_call.found))
          => /\ Len(p_file) = Len(p_memos)
             /\ GoodLines = 1..Len(p_file)
             /\ StoreIsFile
    /\ p_call.op = "load" => StoreIsFile

\* a store that skipped a damaged line when it was opened, loaded a record
\* from another line, and has added a record since
C21_Witness ==
    /\ p_call.op = "add_memory"
    /\ p_call.skipped > 0
    /\ Len(p_memos) >= 2

(***************************************************************************)
(* Claims about the evaluation tool.                                       *)
(***************************************************************************)
\* C22: evaluate_speaker_in_dialogue makes at most retry_times (3 by default)
\* LLM calls; after the k-th failed attempt (k = 0, 1, ...) that is not the
\* last it sleeps base_sleep * 2^k before the next one; it returns 'success'
\* at the first attempt whose result passes validate_evaluation and makes no
\* further call; once the attempts are used up it returns a status that is
\* not 'success' with score -1 in every dimension, and it never raises
C22_RetryWithBackoff ==
    /\ Len(e_log) <= e_args.retry_times
    /\ \A k \in 1..Len(e_sleeps) :
          /\ e_sleeps[k] = e_args.base_sleep * 2^(k - 1)
          /\ e_log[k] # "valid"
    /\ e_pc = "calling" => Len(e_sleeps) = Len(e_log)
    /\ e_pc = "returned" =>
          /\ Len(e_sleeps) = IF e_log = <<>> THEN 0 ELSE Len(e_log) - 1
          /\ IF e_log # <<>> /\ e_log[Len(e_log)] = "valid"
                THEN e_ret = [status |-> "success", score |-> 10]
                ELSE /\ e_ret.status \notin {"success", "none"}
                     /\ e_ret.score = -1
                     /\ Len(e_log) = e_args.retry_times

\* three failed attempts with the default base: two sleeps, of 0.5 s and of
\* 1 s, and a failure result
C22_Witness ==
    /\ e_pc = "returned"
    /\ e_args = [retry_times |-> 3, base_sleep |-> 5]
    /\ Len(e_log) = 3
    /\ e_sleeps = <<5, 10>>
    /\ e_ret.score = -1

(***************************************************************************)
(* Claims about the rounds of BaseAgent.initiate_dialogue.                 *)
(***************************************************************************)
\* the turns of the transcript that were appended in round r
TurnsOfRound(r) == {i \in 1..Len(d_history) : d_history[i].round = r}

\* C23: in each round of initiate_dialogue every continuation decision is
\* resolved before a turn of that round is generated (while the admission loop
\* runs the round has no turn; a turn is appended only after the loop, when
\* every participant is either still available or has declined), and when
\* fewer than 2 agents remain the dialogue ends at once: no turn is appended
\* in that round or afterwards
C23_AdmissionBeforeTurns ==
    /\ [](d_pc \in {"admit", "raised"} => TurnsOfRound(d_round) = {})
    /\ [][d_history' # d_history =>
            /\ d_pc = "turns"
            /\ Len(d_available) >= 2
            /\ \A a \in SeqToSet(AllParticipants) :
                  \/ Contains(d_available, a)
                  \/ (d_declined[a] # -1 /\ d_declined[a] <= d_round)]_vars
    /\ [][(d_pc = "admit" /\ d_idx > Len(d_available) /\ Len(d_temp) < 2)
            => (d_pc' = "memory" /\ d_history' = d_history)]_vars
    /\ [][(d_pc \in {"memory", "returned"}) => (d_history' = d_history)]_vars
    /\ [](d_pc \in {"memory", "returned"} /\ Len(d_available) < 2
            => TurnsOfRound(d_round) = {})

\* a dialogue that ran a round with turns and ended in a later round, before
\* max_rounds, because fewer than 2 agents remained
C23_Witness ==
    /\ d_pc = "returned"
    /\ d_round >= 1 /\ d_round < d_max_rounds
    /\ Len(d_available) < 2
    /\ TurnsOfRound(d_round - 1) # {}

(***************************************************************************)
(* Claims about the draws and the dialogues of handle_interactions.        *)
(***************************************************************************)
\* the number of experts and of students among the agents at the location
ExpertCount == Cardinality({i \in 1..Len(h_agent_names) : h_agent_names[i] = "Sensei"})

StudentCount == Len(h_agent_names) - ExpertCount

\* the probability of interaction at the location of the pass, in tenths
InteractionProb ==
    (IF h_in.is_social_location THEN 8 ELSE 5)
    + (IF StudentCount > 1 THEN 3 ELSE 0)
    + (IF ExpertCount > 0 /\ StudentCount > 0 THEN 2 ELSE 0)

\* handle_interactions has taken its draw for the agents at a location
PassStarted == h_branch \notin {"none", "direct"}

\* C24: _should_agents_interact adds 0.8 (social location) or 0.5, 0.3 for more
\* than one student and 0.2 for an expert with a student, clamps nothing, and
\* answers draw < p: the agents do not interact exactly when the draw is at
\* least p, so a group with p >= 1 interacts on every draw
C24_AdditiveProbability ==
    PassStarted =>
      /\ (h_branch = "no_interaction") <=> (h_in.draw >= InteractionProb)
      /\ InteractionProb >= 10 => h_branch # "no_interaction"

\* the expert and one student at a social location (p = 1.0) interact on the
\* largest draw
C24_Witness ==
    /\ h_branch = "interact"
    /\ ExpertCount = 1 /\ StudentCount = 1
    /\ h_in.is_social_location
    /\ InteractionProb = 10
    /\ h_in.draw = 9

\* C25: when the interaction draw fails where the expert stands with students,
\* the second draw can come out either way: some value of random.random()
\* makes the expert teach and some value makes it not teach
C25_SecondDrawEitherWay ==
    (h_branch = "no_interaction" /\ ExpertCount > 0 /\ StudentCount > 0) =>
      /\ \E d \in Draws : ShouldExpertTeachRandomly(d)
      /\ \E d \in Draws : ~ShouldExpertTeachRandomly(d)

\* the 'dialogue' records the pass has added to the store of agent a
DialogueRecords(a) == SelectSeq(h_new[a], LAMBDA m : m.type = "dialogue")

\* C26: a dialogue that handle_interactions completes with a transcript that
\* is not empty leaves exactly one log file and, in the store of every agent
\* that joined, exactly one new 'dialogue' record of weight 1.2 (the records of
\* initiate_dialogue and of handle_interactions counted together); an agent at
\* the location that declined gets none; an empty transcript leaves no log
\* file and no 'dialogue' record
C26_OneDialogueRecordEach ==
    h_branch = "dialogue" =>
      IF h_dialogue.history # <<>>
        THEN /\ h_logs = 1
             /\ \A a \in AgentNames :
                   DialogueRecords(a) = IF \E i \in 1..Len(h_participating) : h_participating[i] = a
                                          THEN <<[type |-> "dialogue", weight |-> 12]>>
                                          ELSE <<>>
        ELSE /\ h_logs = 0
             /\ \A a \in AgentNames : DialogueRecords(a) = <<>>

\* C30: with ExpertAgent and StudentAgent objects every dialogue that
\* handle_interactions starts, and every direct call, runs the override of the
\* initiating agent: the transcript has at most one turn, spoken by the first
\* agent that joined; no _should_continue_dialogue call is made; any other
\* max_rounds gives the same result; and without participants the transcript
\* is empty
C30_OverrideRunsNoRounds ==
    (h_branch \in {"dialogue", "direct"} /\ ~h_in.base_agents) =>
      /\ Len(h_dialogue.history) <= 1
      /\ \A i \in 1..Len(h_dialogue.history) :
            h_dialogue.history[i].speaker = h_participating[1]
      /\ h_dialogue.continue_calls = 0
      /\ \A max_rounds \in 0..MaxDialogueRounds, outcome \in DialogueOutcomes :
            OverrideInitiateDialogue(h_participating[1], Tail(h_participating),
                                     max_rounds, outcome)
            = OverrideInitiateDialogue(h_participating[1], Tail(h_participating),
                                       h_dialogue.max_rounds, outcome)
      /\ Len(h_participating) = 1 => (h_dialogue.history = <<>> /\ h_pc = "done")

\* a dialogue of handle_interactions between a student and the expert with
\* max_rounds = 2 whose transcript is the one turn of the student, who joined
\* first
C30_Witness ==
    /\ h_branch = "dialogue"
    /\ ~h_in.base_agents
    /\ h_dialogue.max_rounds = 2
    /\ Len(h_participating) = 2
    /\ h_participating[1] # "Sensei"
    /\ h_dialogue.history = <<[speaker |-> h_participating[1]]>>

(***************************************************************************)
(* Claims about the knowledge base.                                        *)
(***************************************************************************)
\* C27: get_all_topics returns exactly the topics under which the loaded
\* entries were indexed: every returned topic is the indexed topic of a loaded
\* entry, and every indexed topic is returned
C27_AllTopicsAreIndexedTopics ==
    k_call.op = "get_all_topics" => k_call.result = k_index

(***************************************************************************)
(* Claims about the order of the curriculum and about group teaching.      *)
(***************************************************************************)
\* the topic at index (k-1) mod N of the sequence
CyclicTopic(k) == curriculum_sequence[((k - 1) % Len(curriculum_sequence)) + 1]

C29_GroupTeachAdvancesEachByOne ==
    [][(c_sessions' = c_sessions + 1) =>
          LET listed == {c_group'[i] : i \in 1..Len(c_group')}
              Index(st) == IF teaching_progress[st] = -1 THEN 0 ELSE teaching_progress[st]
          IN  /\ \A st \in listed :
                    teaching_progress'[st] =
                        NextTeachingTopic(curriculum_sequence, Index(st)).progress
              /\ (\A st, other \in listed : Index(st) = Index(other))
                    => \A st, other \in listed :
                          teaching_progress'[st] = teaching_progress'[other]]_vars
====
